---- MODULE Spec2Model ----
(***************************************************************************)
(* tiny-debounce-throttle: the debounce, throttle and throttle.raf         *)
(* controllers of packages/tiny-debounce-throttle/src, as a state machine. *)
(*                                                                         *)
(* One behaviour follows one controller instance (its kind and options are *)
(* fixed at construction).  The platform is modelled by a millisecond      *)
(* clock `now` and the queue `timers` of scheduled one-shot callbacks      *)
(* (setTimeout / requestAnimationFrame).  The scheduler is the ideal one   *)
(* of the test-suite's fake timers: the clock never passes the deadline of *)
(* a live timer, a due timer fires at its deadline, and caller operations  *)
(* may still run at that instant before the timer does.  A frame callback  *)
(* has no deadline: it fires at any later step.                            *)
(*                                                                         *)
(* `log` is the observable trace: caller operations, timer callbacks and   *)
(* the deliveries of the wrapped action, each stamped with the clock.      *)
(* A handler (a caller operation or a timer callback) runs to completion   *)
(* in one step: JavaScript is single-threaded.                             *)
(***************************************************************************)
EXTENDS Integers, Sequences, FiniteSets, TLC

VARIABLES kind, cfg, st, timers, nextId, now, log

vars == <<kind, cfg, st, timers, nextId, now, log>>

----------------------------------------------------------------------------
(* Bounds of the exploration *)

MaxTime == 3     \* caller operations happen at clock values below MaxTime
MaxOps == 3      \* caller operations (calls, cancel, flush) per behaviour
MaxWaitMs == 2   \* the longest configured wait

----------------------------------------------------------------------------
(* Values *)

\* `undefined` in a timer-id variable; real ids are positive
NoTimer == 0
\* `undefined` in lastArgs; a real argument list is an array, always truthy
NoArgs == 0
\* `undefined` in lastThis, and the `this` of an unbound call
Undefined == "undefined"
\* `undefined` in lastCallTime; Date.now() is never negative
NoTime == -1
\* options.maxWait left undefined
NoMaxWait == -1

Kinds == {"debounce", "throttle", "raf"}

\* What the k-th call passes: its own number as the argument list, and as
\* `this` an object (odd calls, made as a method) or nothing (even calls).
\* The controllers never inspect the arguments or `this`, they only store
\* and forward them, so distinct values per call show every mix-up.
Payload(k) == [args |-> k, this |-> IF k % 2 = 1 THEN "objA" ELSE Undefined]

\* wait: zero and positive
Waits == {0, MaxWaitMs}
\* maxWait: none, shorter than the positive wait, longer than it
MaxWaits == {NoMaxWait, 1, MaxWaitMs + 1}

\* the options a controller has when none are given
DefaultOptions(w) ==
    [wait |-> w, leading |-> FALSE, trailing |-> TRUE, maxWait |-> NoMaxWait]

\* debounce(func, wait, options): every option combination
DebounceConfigs ==
    {[wait |-> w, leading |-> l, trailing |-> t, maxWait |-> mw] :
        w \in Waits, l \in BOOLEAN, t \in BOOLEAN, mw \in MaxWaits}

\* throttle(func, wait)
ThrottleConfigs == {DefaultOptions(w) : w \in Waits}

----------------------------------------------------------------------------
(* The platform: timers, and the wrapped function *)

\* The state a handler runs on: the controller's closure variables, the
\* platform's timer queue, the next timer id, and the deliveries it made.
Mach == [st |-> st, tm |-> timers, id |-> nextId, out |-> <<>>]

\* setTimeout(cb, delay): a new one-shot timer; its id is m.id.  The
\* platform takes a negative delay as 0.
setTimeout(m, cb, delay) ==
    [m EXCEPT !.tm = @ \cup {[id |-> m.id, cb |-> cb,
                              due |-> now + (IF delay < 0 THEN 0 ELSE delay)]},
              !.id = @ + 1]

\* clearTimeout(id): no effect when the id is not of a live timer
clearTimeout(m, id) == [m EXCEPT !.tm = {x \in @ : x.id # id}]

\* requestAnimationFrame(cb): fires on the next frame, whenever that is
requestAnimationFrame(m, cb) ==
    [m EXCEPT !.tm = @ \cup {[id |-> m.id, cb |-> cb, due |-> now]},
              !.id = @ + 1]

cancelAnimationFrame(m, id) == [m EXCEPT !.tm = {x \in @ : x.id # id}]

\* func.apply(thisArg, args): one delivery of the wrapped action
apply(m, thisArg, args) ==
    [m EXCEPT !.out = Append(@, [args |-> args, this |-> thisArg])]

----------------------------------------------------------------------------
(* debounce *)

DebounceInit ==
    [timeoutId |-> NoTimer, maxTimeoutId |-> NoTimer, lastArgs |-> NoArgs,
     lastThis |-> Undefined, lastCallTime |-> NoTime]

\* an invokeFunc that delivers the pending call and keeps it pending
debounce_invokeFunc_keepsArgs(m) ==
    IF m.st.lastArgs # NoArgs THEN apply(m, m.st.lastThis, m.st.lastArgs) ELSE m

debounce_invokeFunc(m) ==
    LET args == m.st.lastArgs
        thisArg == m.st.lastThis
        m1 == [m EXCEPT !.st.lastArgs = NoArgs, !.st.lastThis = Undefined]
    IN  IF args # NoArgs THEN apply(m1, thisArg, args) ELSE m1

debounce_clearTimers(m) ==
    LET m1 == IF m.st.timeoutId # NoTimer
              THEN clearTimeout(m, m.st.timeoutId) ELSE m
        m2 == IF m1.st.maxTimeoutId # NoTimer
              THEN clearTimeout(m1, m1.st.maxTimeoutId) ELSE m1
    IN  [m2 EXCEPT !.st.timeoutId = NoTimer, !.st.maxTimeoutId = NoTimer]

\* a cancel that clears the timers and the pending call but not the burst
debounce_cancel_keepsBurst(m) ==
    [debounce_clearTimers(m) EXCEPT !.st.lastArgs = NoArgs,
                                    !.st.lastThis = Undefined]

debounce_cancel(m) ==
    [debounce_clearTimers(m) EXCEPT !.st.lastArgs = NoArgs,
                                    !.st.lastThis = Undefined,
                                    !.st.lastCallTime = NoTime]

\* a flush that delivers but leaves the timers scheduled
debounce_flush_keepsTimers(m) ==
    IF m.st.lastArgs # NoArgs THEN debounce_invokeFunc(m) ELSE m

debounce_flush(m) ==
    LET m1 == debounce_clearTimers(m)
    IN  IF m1.st.lastArgs # NoArgs THEN debounce_invokeFunc(m1) ELSE m1

\* debounced.pending()
pending == st.timeoutId # NoTimer

\* a wait-timer callback that forgets to reset timeoutId
debounce_waitTimer_keepsId(m) ==
    LET m2 == IF m.st.maxTimeoutId # NoTimer
              THEN [clearTimeout(m, m.st.maxTimeoutId)
                        EXCEPT !.st.maxTimeoutId = NoTimer]
              ELSE m
        m3 == IF ~cfg.leading \/ m2.st.lastArgs # NoArgs
              THEN debounce_invokeFunc(m2) ELSE m2
    IN  [m3 EXCEPT !.st.lastCallTime = NoTime]

\* the callback of the wait timer
debounce_waitTimer(m) ==
    LET m1 == [m EXCEPT !.st.timeoutId = NoTimer]
        m2 == IF m1.st.maxTimeoutId # NoTimer
              THEN [clearTimeout(m1, m1.st.maxTimeoutId)
                        EXCEPT !.st.maxTimeoutId = NoTimer]
              ELSE m1
        m3 == IF ~cfg.leading \/ m2.st.lastArgs # NoArgs
              THEN debounce_invokeFunc(m2) ELSE m2
    IN  [m3 EXCEPT !.st.lastCallTime = NoTime]

\* the callback of the maxWait timer
debounce_maxWaitTimer(m) ==
    LET m1 == [m EXCEPT !.st.maxTimeoutId = NoTimer]
        m2 == IF m1.st.timeoutId # NoTimer
              THEN [clearTimeout(m1, m1.st.timeoutId)
                        EXCEPT !.st.timeoutId = NoTimer]
              ELSE m1
        m3 == debounce_invokeFunc(m2)
    IN  [m3 EXCEPT !.st.lastCallTime = NoTime]

\* a leading edge taken whether or not the leading option is set
debounce_leadingEdge_always(m, isInvoking) ==
    IF isInvoking THEN debounce_invokeFunc(m) ELSE m

\* debounced(...args): the leading edge
debounce_leadingEdge(m, isInvoking) ==
    IF isInvoking /\ cfg.leading THEN debounce_invokeFunc(m) ELSE m

\* a wait timer started without clearing the previous one
debounce_startWaitTimer_keepsOld(m) ==
    IF cfg.trailing
    THEN [setTimeout(m, "wait", cfg.wait) EXCEPT !.st.timeoutId = m.id]
    ELSE m

\* a wait timer that is left running when a call finds one scheduled
debounce_startWaitTimer_once(m) ==
    IF m.st.timeoutId # NoTimer THEN m
    ELSE IF cfg.trailing
         THEN [setTimeout(m, "wait", cfg.wait) EXCEPT !.st.timeoutId = m.id]
         ELSE m

\* debounced(...args): every call replaces the wait timer
debounce_startWaitTimer(m) ==
    LET m1 == IF m.st.timeoutId # NoTimer
              THEN clearTimeout(m, m.st.timeoutId) ELSE m
    IN  IF cfg.trailing
        THEN [setTimeout(m1, "wait", cfg.wait) EXCEPT !.st.timeoutId = m1.id]
        ELSE m1

\* a maxWait timer restarted by every call
debounce_startMaxWaitTimer_restarts(m) ==
    LET m1 == IF m.st.maxTimeoutId # NoTimer
              THEN clearTimeout(m, m.st.maxTimeoutId) ELSE m
    IN  IF cfg.maxWait # NoMaxWait
        THEN [setTimeout(m1, "maxWait", cfg.maxWait)
                  EXCEPT !.st.maxTimeoutId = m1.id]
        ELSE m1

\* a maxWait timer started by every call, whether or not one is running
debounce_startMaxWaitTimer_everyCall(m) ==
    IF cfg.maxWait # NoMaxWait
    THEN [setTimeout(m, "maxWait", cfg.maxWait)
              EXCEPT !.st.maxTimeoutId = m.id]
    ELSE m

\* debounced(...args): the maxWait timer is started once per burst
debounce_startMaxWaitTimer(m) ==
    IF cfg.maxWait # NoMaxWait /\ m.st.maxTimeoutId = NoTimer
    THEN [setTimeout(m, "maxWait", cfg.maxWait)
              EXCEPT !.st.maxTimeoutId = m.id]
    ELSE m

debounced(m, this, args) ==
    LET time == now
        isInvoking == m.st.lastCallTime = NoTime
        m1 == [m EXCEPT !.st.lastArgs = args, !.st.lastThis = this,
                        !.st.lastCallTime = time]
        m2 == debounce_leadingEdge(m1, isInvoking)
        m3 == debounce_startWaitTimer(m2)
    IN  debounce_startMaxWaitTimer(m3)

----------------------------------------------------------------------------
(* throttle *)

ThrottleInit ==
    [inThrottle |-> FALSE, lastArgs |-> NoArgs, lastThis |-> Undefined,
     timeoutId |-> NoTimer]

\* a cancel that resets the flags but does not clear the timer
throttle_cancel_flagsOnly(m) ==
    [m EXCEPT !.st.inThrottle = FALSE, !.st.lastArgs = NoArgs,
              !.st.lastThis = Undefined]

throttle_cancel(m) ==
    LET m1 == IF m.st.timeoutId # NoTimer
              THEN [clearTimeout(m, m.st.timeoutId)
                        EXCEPT !.st.timeoutId = NoTimer]
              ELSE m
    IN  [m1 EXCEPT !.st.inThrottle = FALSE, !.st.lastArgs = NoArgs,
                   !.st.lastThis = Undefined]

\* a delivery that does not enter the cooldown
throttle_fire_noCooldown(m, this, args) ==
    LET m1 == apply(m, this, args)
        m2 == [m1 EXCEPT !.st.lastArgs = NoArgs, !.st.lastThis = Undefined]
    IN  [setTimeout(m2, "cooldown", cfg.wait) EXCEPT !.st.timeoutId = m2.id]

\* throttled(...args): the branch taken outside the cooldown
throttle_fire(m, this, args) ==
    LET m1 == apply(m, this, args)
        m2 == [m1 EXCEPT !.st.lastArgs = NoArgs, !.st.lastThis = Undefined,
                         !.st.inThrottle = TRUE]
    IN  [setTimeout(m2, "cooldown", cfg.wait) EXCEPT !.st.timeoutId = m2.id]

\* a call in the cooldown that keeps the first suppressed call
throttled_keepsFirst(m, this, args) ==
    LET m1 == IF m.st.lastArgs = NoArgs
              THEN [m EXCEPT !.st.lastArgs = args, !.st.lastThis = this]
              ELSE m
    IN  IF ~m1.st.inThrottle THEN throttle_fire(m1, this, args) ELSE m1

throttled(m, this, args) ==
    LET m1 == [m EXCEPT !.st.lastArgs = args, !.st.lastThis = this]
    IN  IF ~m1.st.inThrottle THEN throttle_fire(m1, this, args) ELSE m1

\* a cooldown callback that ends the cooldown and drops the suppressed call
throttle_cooldownTimer_drops(m) ==
    [m EXCEPT !.st.inThrottle = FALSE, !.st.lastArgs = NoArgs,
              !.st.lastThis = Undefined]

\* a cooldown callback that opens the next window itself before it
\* re-invokes the controller
throttle_cooldownTimer_rearms(m) ==
    LET m1 == [setTimeout(m, "cooldown", cfg.wait) EXCEPT !.st.inThrottle = FALSE]
    IN  IF m1.st.lastArgs # NoArgs
        THEN throttled(m1, m1.st.lastThis, m1.st.lastArgs)
        ELSE m1

\* the callback of the cooldown timer
throttle_cooldownTimer(m) ==
    LET m1 == [m EXCEPT !.st.inThrottle = FALSE]
    IN  IF m1.st.lastArgs # NoArgs
        THEN throttled(m1, m1.st.lastThis, m1.st.lastArgs)
        ELSE m1

----------------------------------------------------------------------------
(* throttle.raf *)

RafInit == [rafId |-> NoTimer, lastArgs |-> NoArgs, lastThis |-> Undefined]

\* a cancel that forgets the pending call but leaves the frame requested
raf_cancel_argsOnly(m) == [m EXCEPT !.st.lastArgs = NoArgs]

raf_cancel(m) ==
    LET m1 == IF m.st.rafId # NoTimer
              THEN [cancelAnimationFrame(m, m.st.rafId)
                        EXCEPT !.st.rafId = NoTimer]
              ELSE m
    IN  [m1 EXCEPT !.st.lastArgs = NoArgs]

\* a call that records `this` only when it requests the frame
raf_throttled_keepsThis(m, this, args) ==
    LET m1 == [m EXCEPT !.st.lastArgs = args]
    IN  IF m1.st.rafId = NoTimer
        THEN [requestAnimationFrame(m1, "frame")
                  EXCEPT !.st.rafId = m1.id, !.st.lastThis = this]
        ELSE m1

raf_throttled(m, this, args) ==
    LET m1 == [m EXCEPT !.st.lastArgs = args, !.st.lastThis = this]
    IN  IF m1.st.rafId = NoTimer
        THEN [requestAnimationFrame(m1, "frame") EXCEPT !.st.rafId = m1.id]
        ELSE m1

\* the frame callback
raf_frameCallback(m) ==
    LET m1 == [m EXCEPT !.st.rafId = NoTimer]
    IN  IF m1.st.lastArgs # NoArgs
        THEN [apply(m1, m1.st.lastThis, m1.st.lastArgs)
                  EXCEPT !.st.lastArgs = NoArgs]
        ELSE m1

----------------------------------------------------------------------------
(* The trace *)

CallerOps == {"invoke", "cancel", "flush"}
TimerOps == {"wait", "maxWait", "cooldown", "frame"}

Entry(op, args, this) == [op |-> op, t |-> now, args |-> args, this |-> this]

\* the deliveries a handler made, as trace entries
Delivered(m) ==
    [i \in 1..Len(m.out) |-> Entry("deliver", m.out[i].args, m.out[i].this)]

NumOps == Cardinality({i \in DOMAIN log : log[i].op \in CallerOps})

\* the payload of the call being made now
ThisCall == Payload(Cardinality({i \in DOMAIN log : log[i].op = "invoke"}) + 1)

\* a handler ran: commit its effects and record it
Commit(m, op, args, this) ==
    /\ st' = m.st
    /\ timers' = m.tm
    /\ nextId' = m.id
    /\ log' = log \o <<Entry(op, args, this)>> \o Delivered(m)
    /\ UNCHANGED <<kind, cfg, now>>

CanCall == NumOps < MaxOps /\ now < MaxTime

----------------------------------------------------------------------------
(* Actions *)

Init ==
    /\ kind \in Kinds
    /\ cfg \in CASE kind = "debounce" -> DebounceConfigs
                 [] kind = "throttle" -> ThrottleConfigs
                 [] OTHER -> {DefaultOptions(0)}
    /\ st = CASE kind = "debounce" -> DebounceInit
              [] kind = "throttle" -> ThrottleInit
              [] OTHER -> RafInit
    /\ timers = {}
    /\ nextId = 1
    /\ now = 0
    /\ log = <<>>

DebouncedCall ==
    /\ kind = "debounce" /\ CanCall
    /\ Commit(debounced(Mach, ThisCall.this, ThisCall.args),
              "invoke", ThisCall.args, ThisCall.this)

DebounceCancel ==
    /\ kind = "debounce" /\ CanCall
    /\ Commit(debounce_cancel(Mach), "cancel", NoArgs, Undefined)

DebounceFlush ==
    /\ kind = "debounce" /\ CanCall
    /\ Commit(debounce_flush(Mach), "flush", NoArgs, Undefined)

ThrottledCall ==
    /\ kind = "throttle" /\ CanCall
    /\ Commit(throttled(Mach, ThisCall.this, ThisCall.args),
              "invoke", ThisCall.args, ThisCall.this)

ThrottleCancel ==
    /\ kind = "throttle" /\ CanCall
    /\ Commit(throttle_cancel(Mach), "cancel", NoArgs, Undefined)

RafCall ==
    /\ kind = "raf" /\ CanCall
    /\ Commit(raf_throttled(Mach, ThisCall.this, ThisCall.args),
              "invoke", ThisCall.args, ThisCall.this)

RafCancel ==
    /\ kind = "raf" /\ CanCall
    /\ Commit(raf_cancel(Mach), "cancel", NoArgs, Undefined)

\* the callback a timer runs
Callback(cb, m) ==
    CASE cb = "wait" -> debounce_waitTimer(m)
      [] cb = "maxWait" -> debounce_maxWaitTimer(m)
      [] cb = "cooldown" -> throttle_cooldownTimer(m)
      [] cb = "frame" -> raf_frameCallback(m)

\* the platform runs a due timer (one-shot: it leaves the queue)
FireTimer ==
    \E x \in timers :
        /\ x.due <= now
        /\ Commit(Callback(x.cb, [Mach EXCEPT !.tm = timers \ {x}]),
                  x.cb, NoArgs, Undefined)

\* one millisecond passes; never past the deadline of a live timer
Tick ==
    /\ \A x \in timers : x.cb = "frame" \/ x.due > now
    /\ now < MaxTime \/ \E x \in timers : x.cb # "frame"
    /\ now' = now + 1
    /\ UNCHANGED <<kind, cfg, st, timers, nextId, log>>

Next ==
    \/ DebouncedCall
    \/ DebounceCancel
    \/ DebounceFlush
    \/ ThrottledCall
    \/ ThrottleCancel
    \/ RafCall
    \/ RafCancel
    \/ FireTimer
    \/ Tick

Spec == Init /\ [][Next]_vars

----------------------------------------------------------------------------
(* Reading the trace *)

Idx == DOMAIN log

\* the positions of the entries whose op is in S
Ops(S) == {i \in Idx : log[i].op \in S}

MaxOf(S) == CHOOSE x \in S : \A y \in S : y <= x
MinOf(S) == CHOOSE x \in S : \A y \in S : x <= y

\* the last entry before position i (the first after it) with an op in S; 0 if none
LastBefore(i, S) ==
    LET c == {j \in Ops(S) : j < i} IN IF c = {} THEN 0 ELSE MaxOf(c)
FirstAfter(i, S) ==
    LET c == {j \in Ops(S) : j > i} IN IF c = {} THEN 0 ELSE MinOf(c)

\* the entry of a delivery, at time t, of the call recorded at position i
DeliveryOf(i, t) == [log[i] EXCEPT !.op = "deliver", !.t = t]

\* entry i is an invoke delivered in its own call stack
DeliveredInCall(i) ==
    i + 1 \in Idx /\ log[i + 1] = DeliveryOf(i, log[i].t)

\* entry i is directly followed by a delivery
FollowedByDelivery(i) == i + 1 \in Idx /\ log[i + 1].op = "deliver"

\* no delivery between position i and the next invoke
NoDeliveryUntilInvoke(i) ==
    \A j \in Ops({"deliver"}) :
        j > i => \E k \in Ops({"invoke"}) : i < k /\ k < j

IsInvoke(e) == e.op = "invoke"
IsDeliver(e) == e.op = "deliver"
Calls == SelectSeq(log, IsInvoke)
Deliveries == SelectSeq(log, IsDeliver)

\* the call at position i is pending just before position j: neither
\* delivered, nor cancelled, nor superseded in between
PendingAt(i, j) ==
    /\ log[i].op = "invoke" /\ i < j
    /\ \A k \in Idx : i < k /\ k < j => log[k].op \notin {"invoke", "deliver", "cancel"}

----------------------------------------------------------------------------
(* C1 *)

\* the calls so far are one burst of a default-options debounce, each call
\* less than wait ms after the previous one, with no cancel or flush
OneBurst ==
    /\ kind = "debounce"
    /\ cfg = DefaultOptions(cfg.wait)
    /\ Ops({"cancel", "flush"}) = {}
    /\ Calls # <<>>
    /\ \A k \in 2..Len(Calls) : Calls[k].t - Calls[k - 1].t < cfg.wait

\* C1: a burst of N calls to a default-options debounce, each less than wait
\* ms after the previous one, is delivered exactly once, wait ms after the
\* Nth call, with the arguments (and this) of the Nth call: until then there
\* is no delivery and the clock cannot pass that deadline, afterwards the
\* trace holds exactly that one delivery and no timer is left.
DebounceCollapsesBurst ==
    OneBurst =>
        LET last == Calls[Len(Calls)]
            due == last.t + cfg.wait
        IN  IF Deliveries = <<>>
            THEN now <= due /\ timers = {[id |-> st.timeoutId, cb |-> "wait", due |-> due]}
            ELSE /\ Deliveries = <<[last EXCEPT !.op = "deliver", !.t = due]>>
                 /\ timers = {}

DebounceCollapsesBurst_Witness ==
    /\ OneBurst
    /\ Len(Calls) = 3
    /\ Len(Deliveries) = 1
    /\ now > Calls[3].t + cfg.wait

----------------------------------------------------------------------------
(* C2 *)

\* the throttle is in its cooldown just before position i
InCooldownBefore(i) ==
    \E j \in Ops({"deliver"}) :
        j < i /\ \A k \in Idx : j < k /\ k < i => log[k].op \notin {"cooldown", "cancel"}

\* C2: a throttled call outside the cooldown is delivered in its own stack; a
\* call inside the cooldown is not; the cooldown timer fires wait ms after the
\* delivery that opened the window and then delivers the most recent
\* suppressed call exactly once, or nothing when no call was suppressed; while
\* the window is open its timer is due wait ms after the opening delivery and
\* the clock cannot pass it.  The same holds for wait = 0.
ThrottleWindow ==
    kind = "throttle" =>
        /\ \A i \in Ops({"invoke"}) :
              IF InCooldownBefore(i) THEN ~FollowedByDelivery(i)
                                     ELSE DeliveredInCall(i)
        /\ \A i \in Ops({"cooldown"}) :
              LET j == LastBefore(i, {"deliver"})
                  p == LastBefore(i, {"invoke"})
              IN  /\ j > 0
                  /\ log[i].t = log[j].t + cfg.wait
                  /\ IF p > j
                     THEN i + 1 \in Idx /\ log[i + 1] = DeliveryOf(p, log[i].t)
                     ELSE ~FollowedByDelivery(i)
        /\ \A i \in Ops({"deliver"}) :
              i > 1 /\ log[i - 1].op \in {"invoke", "cooldown"}
        /\ InCooldownBefore(Len(log) + 1) =>
              LET j == LastBefore(Len(log) + 1, {"deliver"})
              IN  /\ now <= log[j].t + cfg.wait
                  /\ timers = {[id |-> st.timeoutId, cb |-> "cooldown",
                                due |-> log[j].t + cfg.wait]}

\* a leading delivery, two suppressed calls with different arguments, and
\* the trailing delivery of the second at the end of the window
ThrottleWindow_Witness ==
    /\ kind = "throttle" /\ cfg.wait > 0
    /\ Len(log) = 6
    /\ log[1].op = "invoke" /\ log[2].op = "deliver"
    /\ log[3].op = "invoke" /\ log[4].op = "invoke"
    /\ log[5].op = "cooldown"
    /\ log[6] = DeliveryOf(4, log[2].t + cfg.wait)
    /\ st.inThrottle

\* wait = 0: three calls in one stack give the immediate and one trailing delivery
ThrottleZeroWaitBurst ==
    /\ kind = "throttle" /\ cfg.wait = 0
    /\ Len(Calls) = 3 /\ now = 0
    /\ log[1].op = "invoke" /\ log[3].op = "invoke" /\ log[4].op = "invoke"
    /\ Len(Deliveries) = 2

----------------------------------------------------------------------------
(* C3 *)

\* C3: after a cancel there is no delivery and no timer callback until the
\* next invoke, in debounce, throttle and throttle.raf alike; when cancel
\* returns no timer of the controller is live and no call is pending.
CancelSuppresses ==
    /\ \A i \in Ops({"cancel"}) :
          \A j \in Ops(TimerOps \cup {"deliver"}) :
              j > i => \E k \in Ops({"invoke"}) : i < k /\ k < j
    /\ \A i \in Ops({"cancel"}) :
          LastBefore(Len(log) + 1, {"invoke"}) < i =>
              timers = {} /\ st.lastArgs = NoArgs

\* a pending call of a debounce with maxWait was cancelled, and the clock has
\* reached both its wait and its maxWait deadline with nothing left to fire
CancelSuppresses_Witness ==
    /\ Len(log) >= 2
    /\ log[Len(log)].op = "cancel"
    /\ PendingAt(Len(log) - 1, Len(log))
    /\ kind = "debounce" /\ cfg.maxWait # NoMaxWait /\ cfg.wait > 0
    /\ now >= log[Len(log) - 1].t + cfg.maxWait
    /\ timers = {}

----------------------------------------------------------------------------
(* C4 *)

\* C4: a flush of a debounce with a call pending is directly followed by the
\* delivery of that call (its arguments and this, at the time of the flush);
\* no other delivery follows before the next invoke, and until that invoke no
\* timer is live.
FlushDelivers ==
    kind = "debounce" =>
        \A i \in Ops({"flush"}) :
            LET p == LastBefore(i, {"invoke"})
            IN  (p > 0 /\ PendingAt(p, i)) =>
                    /\ i + 1 \in Idx
                    /\ log[i + 1] = DeliveryOf(p, log[i].t)
                    /\ NoDeliveryUntilInvoke(i + 1)
                    /\ LastBefore(Len(log) + 1, {"invoke"}) < i => timers = {}

\* a pending call of a debounce with maxWait was flushed, and the clock has
\* reached both its wait and its maxWait deadline with nothing left to fire
FlushDelivers_Witness ==
    /\ kind = "debounce" /\ cfg.maxWait # NoMaxWait /\ cfg.wait > 0
    /\ Len(log) >= 3
    /\ log[Len(log) - 1].op = "flush"
    /\ log[Len(log)].op = "deliver"
    /\ PendingAt(Len(log) - 2, Len(log) - 1)
    /\ now >= log[Len(log) - 2].t + cfg.maxWait
    /\ timers = {}

----------------------------------------------------------------------------
(* C5 *)

\* the first call since the delivery, cancel or flush that precedes call i
BurstStart(i) ==
    FirstAfter(LastBefore(i, {"deliver", "cancel", "flush"}), {"invoke"})

\* the first call since both timers were last cleared before call i
FirstSinceTimersCleared(i) ==
    FirstAfter(LastBefore(i, {"wait", "maxWait", "cancel", "flush"}), {"invoke"})

\* C5: with maxWait = M, a call is delivered (itself or a later call that
\* superseded it) no later than M ms after the first call of its burst:
\* while it waits the clock cannot pass that limit and the maxWait timer is
\* due within it; and the maxWait timer stays the one scheduled by the first
\* call since the timers were last cleared: later calls do not reschedule it.
MaxWaitBoundsLatency ==
    (kind = "debounce" /\ cfg.maxWait # NoMaxWait) =>
        \A i \in Ops({"invoke"}) :
            LET limit == log[BurstStart(i)].t + cfg.maxWait
                e == FirstAfter(i, {"deliver", "cancel", "flush"})
                c == FirstAfter(i, {"wait", "maxWait", "cancel", "flush"})
            IN  /\ e = 0 =>
                      /\ now <= limit
                      /\ \E x \in timers : /\ x.id = st.maxTimeoutId
                                           /\ x.cb = "maxWait"
                                           /\ x.due <= limit
                /\ (e > 0 /\ log[e].op = "deliver") =>
                      /\ log[e].t <= limit
                      /\ LastBefore(e, {"invoke"}) >= i
                      /\ log[e] = DeliveryOf(LastBefore(e, {"invoke"}), log[e].t)
                /\ c = 0 =>
                      {x \in timers : x.cb = "maxWait"} =
                          {[id |-> st.maxTimeoutId, cb |-> "maxWait",
                            due |-> log[FirstSinceTimersCleared(i)].t + cfg.maxWait]}

\* three calls, each resetting the wait timer, and the delivery of the third
\* by the maxWait timer, M ms after the first and before its own wait ran out
MaxWaitBoundsLatency_Witness ==
    /\ kind = "debounce" /\ cfg.maxWait # NoMaxWait /\ ~cfg.leading /\ cfg.trailing
    /\ Len(log) = 5
    /\ log[1].op = "invoke" /\ log[2].op = "invoke" /\ log[3].op = "invoke"
    /\ log[1].t < log[2].t /\ log[2].t < log[3].t
    /\ log[4].op = "maxWait"
    /\ log[5] = DeliveryOf(3, log[1].t + cfg.maxWait)
    /\ log[5].t < log[3].t + cfg.wait

----------------------------------------------------------------------------
(* C6 *)

\* the handler that ran last: a caller operation or a timer callback
LastHandler ==
    IF Ops(CallerOps \cup TimerOps) = {} THEN "none"
    ELSE log[MaxOf(Ops(CallerOps \cup TimerOps))].op

\* the handler that ran last made a delivery
LastHandlerDelivered == log # <<>> /\ log[Len(log)].op = "deliver"

\* C6 as claimed: for every option combination pending() is false before any
\* call, true right after an invoke, false right after a delivery by
\* whatever path, and false right after cancel or flush.
PendingTracksCalls ==
    kind = "debounce" =>
        /\ log = <<>> => ~pending
        /\ (LastHandler = "invoke" /\ ~LastHandlerDelivered) => pending
        /\ LastHandlerDelivered => ~pending
        /\ LastHandler \in {"cancel", "flush"} => ~pending

\* C6 amended: pending() is true exactly while a wait timer is scheduled:
\* false before any call; right after an invoke true when trailing is
\* enabled and false when it is disabled, whether or not that invoke was
\* delivered on the leading edge; false right after a wait or maxWait timer
\* callback (hence after every timer-driven delivery), and false right after
\* cancel or flush.
PendingIsWaitTimer ==
    kind = "debounce" =>
        /\ pending <=> \E x \in timers : x.cb = "wait" /\ x.id = st.timeoutId
        /\ log = <<>> => ~pending
        /\ LastHandler = "invoke" => (pending <=> cfg.trailing)
        /\ LastHandler \in {"wait", "maxWait", "cancel", "flush"} => ~pending

\* pending() was true after a call and is false after the wait timer delivered it
PendingIsWaitTimer_Witness ==
    /\ kind = "debounce" /\ cfg.trailing
    /\ LastHandler = "wait" /\ LastHandlerDelivered
    /\ ~pending

----------------------------------------------------------------------------
(* C7 *)

\* call i starts a new burst: the first call ever, or a call more than wait
\* ms after the previous one
StartsBurst(i) ==
    LET p == LastBefore(i, {"invoke"})
    IN  p = 0 \/ log[i].t - log[p].t > cfg.wait

\* C7: with leading = true every call that starts a new burst is delivered
\* in its own stack with its own arguments, and no other call is delivered
\* on the leading edge.
LeadingEdgeEveryBurst ==
    (kind = "debounce" /\ cfg.leading) =>
        \A i \in Ops({"invoke"}) :
            IF StartsBurst(i) THEN DeliveredInCall(i)
            ELSE PendingAt(LastBefore(i, {"invoke"}), i) => ~FollowedByDelivery(i)

----------------------------------------------------------------------------
(* C8 *)

\* C8: without cancel, two consecutive deliveries of a throttle are at least
\* wait ms apart.
ThrottleOncePerWindow ==
    (kind = "throttle" /\ Ops({"cancel"}) = {}) =>
        \A k \in 2..Len(Deliveries) :
            Deliveries[k].t - Deliveries[k - 1].t >= cfg.wait

\* three deliveries of a throttle with wait > 0, a call suppressed in between
ThrottleOncePerWindow_Witness ==
    /\ kind = "throttle" /\ cfg.wait > 0 /\ Ops({"cancel"}) = {}
    /\ Len(Deliveries) = 3
    /\ Len(Calls) = 3

----------------------------------------------------------------------------
(* C9 *)

ThrottleStart == Init /\ kind = "throttle"

ThrottleNext ==
    \/ ThrottledCall
    \/ ThrottleCancel
    \/ FireTimer
    \/ Tick

\* The platform keeps its promise: time passes and a due timer is run.
ThrottleFairSpec ==
    ThrottleStart /\ [][ThrottleNext]_vars /\ WF_vars(FireTimer) /\ WF_vars(Tick)

\* the longest trace: per caller operation its entry, a delivery and a timer
TraceIdx == 1..(3 * MaxOps)

\* call n was suppressed by the cooldown
Suppressed(n) ==
    n \in Ops({"invoke"}) /\ InCooldownBefore(n) /\ ~FollowedByDelivery(n)

\* after call n the cooldown timer delivered that call or a later one, or a
\* cancel intervened
Resolved(n) ==
    \E m \in Idx :
        /\ m > n
        /\ \/ log[m].op = "cancel"
           \/ /\ log[m].op = "deliver" /\ log[m - 1].op = "cooldown"
              /\ LastBefore(m, {"invoke"}) >= n
              /\ log[m] = DeliveryOf(LastBefore(m, {"invoke"}), log[m].t)

\* C9: every call a throttle suppresses during the cooldown is eventually
\* followed, with no further invoke needed, by a delivery from the cooldown
\* timer that uses its arguments or those of a later call, unless a cancel
\* intervenes.
SuppressedCallDelivered ==
    \A n \in TraceIdx : Suppressed(n) ~> Resolved(n)

\* a suppressed call with no later call or cancel, delivered by the timer
SuppressedCallDelivered_Witness ==
    /\ kind = "throttle" /\ cfg.wait > 0
    /\ \E n \in Idx :
          /\ Suppressed(n) /\ Resolved(n)
          /\ Ops({"cancel"}) = {}
          /\ LastBefore(Len(log) + 1, {"invoke"}) = n

----------------------------------------------------------------------------
(* C10 *)

\* C10: every delivery, of a debounce, a throttle or a throttle.raf, carries
\* the arguments and the this of the most recent invoke before it.
DeliversLatestCall ==
    \A j \in Ops({"deliver"}) :
        LET p == LastBefore(j, {"invoke"})
        IN  p > 0 /\ log[j].args = log[p].args /\ log[j].this = log[p].this

\* a frame delivered the second of two calls with different arguments; the
\* first was superseded while pending
DeliversLatestCall_Witness ==
    /\ kind = "raf"
    /\ \E j \in Ops({"deliver"}) :
          LET p == LastBefore(j, {"invoke"})
          IN  /\ p > 1 /\ PendingAt(p - 1, p)
              /\ log[p - 1].this # log[p].this

----------------------------------------------------------------------------
(* C11 *)

\* no call is recorded that was not delivered yet
NoCallPending == st.lastArgs = NoArgs

\* this step ran the handler op
Ran(op) == Len(log') > Len(log) /\ log'[Len(log) + 1].op = op

\* the handler of this step made no delivery
DeliveredNothing == Len(log') = Len(log) + 1

\* what a caller can observe of a controller at rest: pending() of a
\* debounce, whether a throttle is in its cooldown, and the live timers that
\* will change either
Observable(s, tm) ==
    [pending |-> kind = "debounce" /\ s.timeoutId # NoTimer,
     cooldown |-> kind = "throttle" /\ s.inThrottle,
     timers |-> tm]

\* C11: a cancel or a flush with no call pending delivers nothing and leaves
\* the observable state of the controller as it was; and a cancel right after
\* a cancel, or a flush right after a flush, delivers nothing and changes
\* nothing.
CancelFlushNoOp ==
    [][(kind \in {"debounce", "throttle"} /\ (Ran("cancel") \/ Ran("flush"))) =>
          /\ NoCallPending =>
                /\ DeliveredNothing
                /\ Observable(st', timers') = Observable(st, timers)
          /\ LastHandler = log'[Len(log) + 1].op =>
                DeliveredNothing /\ st' = st /\ timers' = timers]_vars

----------------------------------------------------------------------------
(* C12 *)

\* the live timers whose callback is cb
Live(cb) == {x \in timers : x.cb = cb}

\* the timer-id variable of the controller that holds the timer running cb
HandleOf(cb) ==
    CASE cb = "wait" -> st.timeoutId
      [] cb = "maxWait" -> st.maxTimeoutId
      [] cb = "cooldown" -> st.timeoutId
      [] cb = "frame" -> st.rafId

\* the timer kinds of each controller
TimerKinds ==
    CASE kind = "debounce" -> {"wait", "maxWait"}
      [] kind = "throttle" -> {"cooldown"}
      [] OTHER -> {"frame"}

\* C12: in every reachable state a controller has at most one live timer of
\* each of its kinds (wait and maxWait; cooldown; frame), that timer is the
\* one whose id the controller holds, and there are no other timers; so a
\* timer is scheduled only when the previous one of its kind was cancelled or
\* has fired.
OneTimerPerKind ==
    /\ \A x \in timers : x.cb \in TimerKinds /\ x.id = HandleOf(x.cb)
    /\ \A cb \in TimerKinds : Cardinality(Live(cb)) <= 1

\* a debounce holds a wait and a maxWait timer at once, after its wait timer
\* was replaced twice (four timers were created in all)
OneTimerPerKind_Witness ==
    /\ kind = "debounce"
    /\ Cardinality(Live("wait")) = 1 /\ Cardinality(Live("maxWait")) = 1
    /\ nextId = 5
    /\ Len(Calls) = 3

----------------------------------------------------------------------------
(* C13 *)

\* C13: a debounce without maxWait: the wait timer that is live is the one
\* of the most recent invoke, due wait ms after it; a wait timer callback
\* runs exactly wait ms after the most recent invoke, so no invoke falls in
\* the wait ms before it; and every delivery that is not made in the stack
\* of an invoke or a flush is made by such a callback.
TrailingAfterQuietWait ==
    (kind = "debounce" /\ cfg.maxWait = NoMaxWait) =>
        /\ \A x \in timers :
              LET p == LastBefore(Len(log) + 1, {"invoke"})
              IN  p > 0 /\ x.cb = "wait" /\ x.due = log[p].t + cfg.wait
        /\ \A i \in Ops({"wait"}) :
              LET p == LastBefore(i, {"invoke"})
              IN  /\ p > 0
                  /\ log[i].t = log[p].t + cfg.wait
                  /\ \A k \in Ops({"invoke"}) :
                        k < i => log[k].t <= log[i].t - cfg.wait
        /\ \A j \in Ops({"deliver"}) :
              /\ j > 1
              /\ log[j - 1].op \in {"invoke", "flush", "wait"}
              /\ log[j - 1].op = "wait" =>
                    log[j] = DeliveryOf(LastBefore(j, {"invoke"}), log[j].t)

\* a second call came while the first was waiting and replaced its timer;
\* the timer delivered the second call wait ms after it, later than the first
\* call's deadline
TrailingAfterQuietWait_Witness ==
    /\ kind = "debounce" /\ cfg.maxWait = NoMaxWait /\ cfg.wait > 0
    /\ Len(log) = 4
    /\ log[1].op = "invoke" /\ log[2].op = "invoke" /\ log[3].op = "wait"
    /\ log[1].t < log[2].t /\ log[2].t < log[1].t + cfg.wait
    /\ log[4] = DeliveryOf(2, log[2].t + cfg.wait)

----------------------------------------------------------------------------
(* C14 *)

\* the handler that ran before the one at position i; "none" if there is none
HandlerBefore(i) ==
    LET p == LastBefore(i, CallerOps \cup TimerOps)
    IN  IF p = 0 THEN "none" ELSE log[p].op

\* C14: when a flush of a debounce has returned, no timer is live and the
\* controller's state is that of a fresh controller; and with leading = true
\* the invoke that follows a flush is delivered in its own stack.
FlushStartsNewBurst ==
    kind = "debounce" =>
        /\ LastHandler = "flush" => timers = {} /\ st = DebounceInit
        /\ cfg.leading =>
              \A i \in Ops({"invoke"}) :
                  HandlerBefore(i) = "flush" => DeliveredInCall(i)

----------------------------------------------------------------------------
(* C15 *)

\* the closure variables of a controller of this kind right after construction
FreshState == IF kind = "debounce" THEN DebounceInit ELSE ThrottleInit

\* the timers (callback and deadline) a first call at time t leaves behind
\* on a fresh controller
FreshTimers(t) ==
    IF kind = "debounce"
    THEN (IF cfg.trailing
          THEN {[cb |-> "wait", due |-> t + cfg.wait]} ELSE {})
         \cup (IF cfg.maxWait # NoMaxWait
               THEN {[cb |-> "maxWait", due |-> t + cfg.maxWait]} ELSE {})
    ELSE {[cb |-> "cooldown", due |-> t + cfg.wait]}

\* C15: when a cancel of a debounce or a throttle has returned, the closure
\* variables are those of a fresh controller and no timer is live, so every
\* later operation acts as on a fresh controller; the invoke that follows a
\* cancel is delivered in its own stack by a throttle and by a leading
\* debounce, and not by a non-leading debounce, and it leaves exactly the
\* timers a first call leaves: a new cooldown window, a new wait timer and a
\* new maxWait timer, counted from that invoke.
CancelMakesFresh ==
    kind \in {"debounce", "throttle"} =>
        /\ LastHandler = "cancel" => st = FreshState /\ timers = {}
        /\ \A i \in Ops({"invoke"}) :
              HandlerBefore(i) = "cancel" =>
                  /\ IF kind = "throttle" \/ cfg.leading
                     THEN DeliveredInCall(i) ELSE ~FollowedByDelivery(i)
                  /\ FirstAfter(i, CallerOps \cup TimerOps) = 0 =>
                        {[cb |-> x.cb, due |-> x.due] : x \in timers} =
                            FreshTimers(log[i].t)

\* a leading debounce with maxWait was cancelled inside a burst, with both
\* timers running; the next call, still within wait ms of the first, was
\* delivered on the leading edge and started both timers anew
CancelMakesFresh_Witness ==
    /\ kind = "debounce" /\ cfg.leading /\ cfg.trailing
    /\ cfg.maxWait # NoMaxWait /\ cfg.wait > 0
    /\ Len(log) = 5
    /\ log[1].op = "invoke" /\ log[2].op = "deliver" /\ log[3].op = "cancel"
    /\ log[4].op = "invoke" /\ log[5] = DeliveryOf(4, log[4].t)
    /\ log[4].t > log[1].t /\ log[4].t < log[1].t + cfg.wait
    /\ Cardinality(timers) = 2

----------------------------------------------------------------------------
(* C16 *)

\* C16: a debounce with leading = false, whatever its wait (zero included):
\* no invoke is followed by a delivery made in its own stack, and every
\* delivery is made by a later handler: a wait or maxWait timer callback or a
\* flush.
NoSynchronousDelivery ==
    (kind = "debounce" /\ ~cfg.leading) =>
        /\ \A i \in Ops({"invoke"}) : ~FollowedByDelivery(i)
        /\ \A j \in Ops({"deliver"}) :
              /\ j > 1
              /\ log[j - 1].op \in {"wait", "maxWait", "flush"}
              /\ LastBefore(j, {"invoke"}) < j - 1

\* wait = 0: the call returned without a delivery, and the zero-delay timer
\* delivered it in a later turn at the same clock value
NoSynchronousDelivery_Witness ==
    /\ kind = "debounce" /\ ~cfg.leading /\ cfg.wait = 0
    /\ Len(log) = 3
    /\ log[1].op = "invoke" /\ log[2].op = "wait"
    /\ log[3] = DeliveryOf(1, log[1].t)

----------------------------------------------------------------------------
(* C17 *)

\* the calls that found no frame callback outstanding: the first call, and
\* every call whose previous handler was a frame callback or a cancel
RafCallsScheduling == {i \in Ops({"invoke"}) : HandlerBefore(i) # "invoke"}

\* C17: a throttle.raf controller has at most one frame callback outstanding,
\* the one whose id it holds; only the calls that found none outstanding
\* requested a frame; a frame callback is directly followed by exactly one
\* delivery, with the arguments and this of the most recent call; every
\* delivery is made by a frame callback; and after a cancel no frame callback
\* runs before the next call, and none is outstanding when cancel returns.
RafOneFrame ==
    kind = "raf" =>
        /\ Cardinality(timers) <= 1
        /\ \A x \in timers : x.cb = "frame" /\ x.id = st.rafId
        /\ nextId - 1 = Cardinality(RafCallsScheduling)
        /\ \A i \in Ops({"frame"}) :
              /\ HandlerBefore(i) = "invoke"
              /\ i + 1 \in Idx
              /\ log[i + 1] = DeliveryOf(LastBefore(i, {"invoke"}), log[i].t)
              /\ i + 2 \in Idx => log[i + 2].op # "deliver"
        /\ \A j \in Ops({"deliver"}) : j > 1 /\ log[j - 1].op = "frame"
        /\ LastHandler = "cancel" => timers = {}

\* two calls before the frame: one frame was requested, and it delivered the
\* second call once
RafOneFrame_Witness ==
    /\ kind = "raf"
    /\ Len(log) = 4
    /\ log[1].op = "invoke" /\ log[2].op = "invoke" /\ log[3].op = "frame"
    /\ log[4] = DeliveryOf(2, log[3].t)
    /\ nextId = 2 /\ timers = {}

----------------------------------------------------------------------------
(* C18 *)

\* debounce(func, wait, options): what the constructor returns.  It reads
\* the options, declares the closure variables and returns the controller;
\* no statement of it inspects wait or throws.
debounce_new(w, options) ==
    [threw |-> FALSE,
     cfg |-> [wait |-> w, leading |-> options.leading,
              trailing |-> options.trailing, maxWait |-> options.maxWait],
     st |-> DebounceInit]

\* throttle(func, wait): likewise
throttle_new(w) ==
    [threw |-> FALSE, cfg |-> DefaultOptions(w), st |-> ThrottleInit]

\* throttle.raf(func)
raf_new == [threw |-> FALSE, cfg |-> DefaultOptions(0), st |-> RafInit]

\* the waits a caller may pass: those of Waits, and a negative one
AnyWaits == Waits \cup {-1}

\* the controllers any call of a constructor returns
Constructions ==
    [debounce |-> {debounce_new(w, o) : w \in AnyWaits, o \in DebounceConfigs},
     throttle |-> {throttle_new(w) : w \in AnyWaits},
     raf |-> {raf_new}]

\* a controller after a construction that returned, whatever wait was passed
AnyWaitInit ==
    /\ kind \in Kinds
    /\ \E c \in Constructions[kind] :
          ~c.threw /\ cfg = c.cfg /\ st = c.st
    /\ timers = {}
    /\ nextId = 1
    /\ now = 0
    /\ log = <<>>

AnyWaitSpec == AnyWaitInit /\ [][Next]_vars

\* C18: no debounce or throttle controller exists whose wait is negative:
\* the construction with a negative wait threw instead of returning one.
NegativeWaitRejected ==
    kind \in {"debounce", "throttle"} => cfg.wait >= 0

----------------------------------------------------------------------------
(* resilient-fetcher: resilientFetch(url, options)                         *)
(*                                                                         *)
(* A behaviour of kind "fetch" follows one call.  cfg holds its options,   *)
(* st the position of the async function (pc), its local variable attempt  *)
(* and the timeoutId of the running attempt; timers, nextId and now are    *)
(* the platform's, as above; log records the call, every fetch() call,     *)
(* what each fetch settled with, the timer callbacks and how the returned  *)
(* promise settled.  The interceptors onRequest, onResponse and onError    *)
(* are left undefined, as in a call that passes none.                      *)

MaxRetries == 2   \* the largest options.retries

\* values: a Response with a status, the errors, and null
Response(s) == [type |-> "response", v |-> s]
\* the error the k-th fetch() rejected with (a network failure)
NetworkError(k) == [type |-> "network", v |-> k]
\* what fetch() rejects with when its signal is aborted
AbortError == [type |-> "abort", v |-> 0]
\* new Error('Request timed out')
TimedOut == [type |-> "timeout", v |-> 0]
\* new Error(`Request failed with status ${response.status}`)
StatusError(s) == [type |-> "status", v |-> s]
Null == [type |-> "null", v |-> 0]

\* response.ok
ok(response) == response.v >= 200 /\ response.v <= 299

\* the statuses a server answers with: ok, 4xx (404, 429) and 5xx
Statuses == {200, 404, 429, 500}

\* options.retryOn: the default, and the custom condition of the test-suite,
\* (_error, response) => response?.status === 429
RetryOns == {"default", "only429"}

defaultRetryOn(error, response) ==
    IF response = Null THEN TRUE ELSE response.v >= 500

retryOn(error, response) ==
    IF cfg.retryOn = "default" THEN defaultRetryOn(error, response)
    ELSE response # Null /\ response.v = 429

\* the options of a call: retryDelay of one and timeout of two clock units,
\* fixed backoff
FetchConfigs ==
    {[retries |-> r, retryDelay |-> 1, timeout |-> 2, backoff |-> "fixed",
      retryOn |-> f] : r \in 0..MaxRetries, f \in RetryOns}

RECURSIVE Pow2(_)
Pow2(n) == IF n <= 0 THEN 1 ELSE 2 * Pow2(n - 1)

\* calculateDelay; the configurations here use the fixed backoff, so the
\* random jitter of the exponential branch is never drawn
calculateDelay(attempt, baseDelay, backoff) ==
    IF backoff = "exponential" THEN baseDelay * Pow2(attempt - 1)
    ELSE baseDelay

FetchInit0 == [pc |-> "start", attempt |-> 0, timeoutId |-> NoTimer]

\* an event of the call, for the trace
Emit(m, op, v) == [m EXCEPT !.out = Append(@, [op |-> op, args |-> v])]

\* the head of the loop body: a new controller and timeout timer, then fetch()
fetch_startAttempt(m) ==
    LET m1 == [setTimeout(m, "abort", cfg.timeout) EXCEPT !.st.timeoutId = m.id]
    IN  Emit([m1 EXCEPT !.st.pc = "fetching"], "fetch", Null)

\* a retry that does not wait
fetch_delay_immediate(m) ==
    [setTimeout(m, "retry", 0) EXCEPT !.st.pc = "delaying"]

\* await new Promise(resolve => setTimeout(resolve, delay))
fetch_delay(m) ==
    LET delay == calculateDelay(m.st.attempt, cfg.retryDelay, cfg.backoff)
    IN  [setTimeout(m, "retry", delay) EXCEPT !.st.pc = "delaying"]

\* the returned promise settles
fetch_settle(m, op, v) == Emit([m EXCEPT !.st.pc = "done"], op, v)

\* a catch block that does not count the failed attempt
fetch_catch_uncounted(m, error) ==
    LET m1 == clearTimeout(m, m.st.timeoutId)
        err == IF error = AbortError THEN TimedOut ELSE error
    IN  IF m1.st.attempt <= cfg.retries /\ retryOn(err, Null)
        THEN fetch_delay(m1)
        ELSE fetch_settle(m1, "reject", err)

\* a catch block that passes the AbortError on as it is
fetch_catch_rawError(m, error) ==
    LET m1 == clearTimeout(m, m.st.timeoutId)
        m2 == [m1 EXCEPT !.st.attempt = @ + 1]
    IN  IF m2.st.attempt <= cfg.retries /\ retryOn(error, Null)
        THEN fetch_delay(m2)
        ELSE fetch_settle(m2, "reject", error)

\* the catch block: entered when fetch() rejects, and by the throw of the
\* non-ok branch
fetch_catch(m, error) ==
    LET m1 == clearTimeout(m, m.st.timeoutId)
        m2 == [m1 EXCEPT !.st.attempt = @ + 1]
        err == IF error = AbortError THEN TimedOut ELSE error
    IN  IF m2.st.attempt <= cfg.retries /\ retryOn(err, Null)
        THEN fetch_delay(m2)
        ELSE fetch_settle(m2, "reject", err)

\* a try block that leaves the timeout timer of the attempt running
fetch_response_keepsTimer(m, response) ==
    IF ~ok(response)
    THEN IF m.st.attempt < cfg.retries /\ retryOn(Null, response)
         THEN fetch_delay([m EXCEPT !.st.attempt = @ + 1])
         ELSE fetch_catch(m, StatusError(response.v))
    ELSE fetch_settle(m, "resolve", response)

\* the try block after fetch() resolved with a response
fetch_response(m, response) ==
    LET m1 == clearTimeout(m, m.st.timeoutId)
    IN  IF ~ok(response)
        THEN IF m1.st.attempt < cfg.retries /\ retryOn(Null, response)
             THEN fetch_delay([m1 EXCEPT !.st.attempt = @ + 1])
             ELSE fetch_catch(m1, StatusError(response.v))
        ELSE fetch_settle(m1, "resolve", response)

\* the timeout timer: controller.abort(); the fetch() of that controller, if
\* it has not settled, rejects with an AbortError
fetch_abortTimer(m, id) ==
    IF m.st.pc = "fetching" /\ m.st.timeoutId = id
    THEN fetch_catch(m, AbortError)
    ELSE m

\* the events a handler emitted, as trace entries
Emitted(m) ==
    [i \in 1..Len(m.out) |-> Entry(m.out[i].op, m.out[i].args, Undefined)]

FetchCommit(m, op, v) ==
    /\ st' = m.st
    /\ timers' = m.tm
    /\ nextId' = m.id
    /\ log' = log \o <<Entry(op, v, Undefined)>> \o Emitted(m)
    /\ UNCHANGED <<kind, cfg, now>>

\* the fetch() calls made so far
NumFetches == Cardinality(Ops({"fetch"}))

\* the exploration stops a call that keeps on retrying beyond every
\* configured number of retries
FetchCap == MaxRetries + 2

FetchInit ==
    /\ kind = "fetch"
    /\ cfg \in FetchConfigs
    /\ st = FetchInit0
    /\ timers = {}
    /\ nextId = 1
    /\ now = 0
    /\ log = <<>>

\* resilientFetch(url, options) is called and runs up to its first fetch()
FetchCall ==
    /\ st.pc = "start"
    /\ FetchCommit(fetch_startAttempt(Mach), "call", Null)

\* the network: fetch() resolves with a response
FetchResolves ==
    /\ st.pc = "fetching"
    /\ \E s \in Statuses :
          FetchCommit(fetch_response(Mach, Response(s)), "response", Response(s))

\* the network: fetch() rejects with an error of its own
FetchRejects ==
    /\ st.pc = "fetching"
    /\ FetchCommit(fetch_catch(Mach, NetworkError(NumFetches)),
                   "error", NetworkError(NumFetches))

\* the platform runs a due timer: the timeout of an attempt, or the end of
\* the delay before the next attempt
FetchTimer ==
    \E x \in timers :
        /\ x.due <= now
        /\ NumFetches < FetchCap
        /\ LET m == [Mach EXCEPT !.tm = timers \ {x}]
           IN  FetchCommit(IF x.cb = "abort" THEN fetch_abortTimer(m, x.id)
                           ELSE fetch_startAttempt(m),
                           x.cb, Null)

\* time passes while the call is in flight
FetchTick == st.pc \in {"fetching", "delaying"} /\ Tick

FetchNext ==
    \/ FetchCall
    \/ FetchResolves
    \/ FetchRejects
    \/ FetchTimer
    \/ FetchTick

FetchSpec == FetchInit /\ [][FetchNext]_vars

----------------------------------------------------------------------------
(* C19 *)

\* what the first fetch() settled with: the entry after the call and the fetch
FirstOutcome == log[3]

\* the first fetch() resolved with a 4xx response
First4xx ==
    /\ Len(log) >= 3
    /\ FirstOutcome.op = "response"
    /\ FirstOutcome.args.v >= 400 /\ FirstOutcome.args.v <= 499

\* C19: with the default retryOn, whatever the number of retries, when the
\* first response has a 4xx status there is exactly one fetch() call and the
\* promise is rejected, by the handler of that response, with 'Request
\* failed with status <status>'.
NoRetryOn4xx ==
    (kind = "fetch" /\ cfg.retryOn = "default" /\ First4xx) =>
        /\ NumFetches = 1
        /\ st.pc = "done"
        /\ Len(log) = 4
        /\ log[4].op = "reject"
        /\ log[4].args = StatusError(FirstOutcome.args.v)

----------------------------------------------------------------------------
(* C20 *)

\* what the fetch() calls settled with so far
Outcomes == Ops({"response", "error", "abort"})

\* every fetch() so far failed with a network error, and the last one has
\* been handled
AllNetworkErrors ==
    /\ Ops({"error"}) # {}
    /\ Outcomes = Ops({"error"})
    /\ st.pc # "fetching"

\* the call makes at most retries + 1 attempts and settles after the last
AttemptsBounded ==
    /\ NumFetches <= cfg.retries + 1
    /\ Cardinality(Outcomes) = cfg.retries + 1 => st.pc = "done"
    /\ st.pc = "done" => log[Len(log)].op \in {"resolve", "reject"}

\* the call was rejected with the error of the last attempt, which was
\* attempt number retries + 1
RejectedAfterAllAttempts ==
    /\ st.pc = "done"
    /\ NumFetches = cfg.retries + 1
    /\ log[Len(log)].op = "reject"
    /\ log[Len(log)].args = NetworkError(cfg.retries + 1)

\* C20 as claimed: at most retries + 1 fetch attempts for any mix of
\* failures, then the promise settles; when every attempt failed with a
\* network error it rejects after exactly retries + 1 attempts with the
\* error of the last attempt.
ExactlyAllAttempts ==
    kind = "fetch" =>
        /\ AttemptsBounded
        /\ (AllNetworkErrors /\ st.pc = "done") => RejectedAfterAllAttempts

\* C20 amended: at most retries + 1 fetch attempts for any mix of failures
\* and any retryOn, then the promise settles; when every attempt failed with
\* a network error the promise rejects with the error of the last attempt,
\* and with the default retryOn (which accepts every error) it does so only
\* after exactly retries + 1 attempts: until then another attempt follows.
AtMostAllAttempts ==
    kind = "fetch" =>
        /\ AttemptsBounded
        /\ (AllNetworkErrors /\ st.pc = "done") =>
              /\ log[Len(log)].op = "reject"
              /\ log[Len(log)].args = NetworkError(NumFetches)
        /\ (AllNetworkErrors /\ cfg.retryOn = "default") =>
              IF NumFetches <= cfg.retries
              THEN st.pc = "delaying"
              ELSE RejectedAfterAllAttempts

\* three attempts of a call with two retries failed with a network error
\* each, and the call was rejected with the third error
AtMostAllAttempts_Witness ==
    /\ kind = "fetch" /\ cfg.retryOn = "default" /\ cfg.retries = 2
    /\ AllNetworkErrors
    /\ Cardinality(Ops({"error"})) = 3
    /\ RejectedAfterAllAttempts

----------------------------------------------------------------------------
(* C21 *)

\* the fetch() calls made before position i
FetchesBefore(i) == Cardinality({j \in Ops({"fetch"}) : j < i})

\* entry i is a network error or a 5xx response
RetriableFailure(i) ==
    \/ log[i].op = "error"
    \/ log[i].op = "response" /\ log[i].args.v >= 500

\* entry i is an ok response
OkResponse(i) == log[i].op = "response" /\ ok(log[i].args)

\* C21: with the default retryOn, a network error or a 5xx response of an
\* attempt that is not the last one (at most retries fetch() calls so far)
\* starts a delay of retryDelay ms: nothing else happens until the delay
\* timer fires, retryDelay ms after the failure, and that callback makes the
\* next fetch() call.  An ok response is followed by the resolution of the
\* promise with that response and by nothing else: no later fetch() call.
RetryAfterDelay ==
    (kind = "fetch" /\ cfg.retryOn = "default") =>
        /\ \A i \in Idx :
              (RetriableFailure(i) /\ FetchesBefore(i) <= cfg.retries) =>
                  IF i = Len(log)
                  THEN /\ st.pc = "delaying"
                       /\ now <= log[i].t + cfg.retryDelay
                       /\ \E x \in timers :
                             timers = {x} /\ x.cb = "retry"
                             /\ x.due = log[i].t + cfg.retryDelay
                  ELSE /\ log[i + 1].op = "retry"
                       /\ log[i + 1].t = log[i].t + cfg.retryDelay
                       /\ i + 2 \in Idx /\ log[i + 2].op = "fetch"
        /\ \A i \in Idx :
              OkResponse(i) =>
                  /\ Len(log) = i + 1
                  /\ log[i + 1].op = "resolve" /\ log[i + 1].args = log[i].args
                  /\ st.pc = "done"
        /\ \A i \in Ops({"resolve"}) : i > 1 /\ OkResponse(i - 1)
        /\ \A i \in Ops({"fetch"}) :
              i > 1 /\ log[i - 1].op \in {"call", "retry"}

\* a network error, then a 5xx response, then an ok response: three fetch()
\* calls, each retry retryDelay ms after the failure, and the promise
\* resolved with the ok response
RetryAfterDelay_Witness ==
    /\ kind = "fetch" /\ cfg.retryOn = "default" /\ cfg.retries = 2
    /\ NumFetches = 3
    /\ Cardinality(Ops({"error"})) = 1
    /\ \E i \in Ops({"response"}) : log[i].args.v >= 500
    /\ log[Len(log)].op = "resolve"
    /\ st.pc = "done"

----------------------------------------------------------------------------
(* C22 *)

\* the outcomes that are failures: everything but an ok response
FailedOutcomes == {i \in Outcomes : ~OkResponse(i)}

\* C22: while an attempt is pending its timeout timer is live, due timeout
\* ms after the fetch() call, so the attempt is never pending longer; the
\* timer callback runs exactly timeout ms after the fetch() call and ends
\* the attempt; every failed attempt, aborted ones included, is counted once
\* in attempt; and an abort of the last attempt (retries + 1 fetch() calls
\* made) is directly followed by the rejection with 'Request timed out'.
TimeoutAborts ==
    kind = "fetch" =>
        /\ st.pc = "fetching" =>
              LET f == LastBefore(Len(log) + 1, {"fetch"})
              IN  /\ timers = {[id |-> st.timeoutId, cb |-> "abort",
                                due |-> log[f].t + cfg.timeout]}
                  /\ now <= log[f].t + cfg.timeout
        /\ \A i \in Ops({"abort"}) :
              LET f == LastBefore(i, {"fetch"})
              IN  /\ f > 0
                  /\ log[i].t = log[f].t + cfg.timeout
                  /\ \A j \in Outcomes : ~(f < j /\ j < i)
                  /\ (i = Len(log)) => st.pc = "delaying"
                  /\ FetchesBefore(i) = cfg.retries + 1 =>
                        /\ i + 1 \in Idx
                        /\ log[i + 1].op = "reject"
                        /\ log[i + 1].args = TimedOut
        /\ st.attempt = Cardinality(FailedOutcomes)
        /\ \A i \in Ops({"reject"}) :
              log[i].args = TimedOut <=> log[i - 1].op = "abort"

\* both attempts of a call with one retry timed out; the promise was
\* rejected with 'Request timed out' after two timeouts and one delay
TimeoutAborts_Witness ==
    /\ kind = "fetch" /\ cfg.retries = 1 /\ cfg.retryOn = "default"
    /\ Cardinality(Ops({"abort"})) = 2
    /\ NumFetches = 2
    /\ log[Len(log)].op = "reject" /\ log[Len(log)].args = TimedOut
    /\ now = 2 * cfg.timeout + cfg.retryDelay

----------------------------------------------------------------------------
(* nano-safe-storage: createStorage(options)                               *)
(*                                                                         *)
(* A behaviour of kind "storage" follows the module's backing stores under *)
(* the calls made through storage instances.  cfg.backend is what          *)
(* getStorage() found when the module was loaded; st holds the contents of *)
(* window.localStorage (local) and of memoryStore (memory), and whether    *)
(* the quota of localStorage is used up (full); now is Date.now(); nextId  *)
(* numbers the calls; log records calls with their instance, key and       *)
(* result.  Keys and                                                       *)
(* prefixes are sequences of characters, so that prefixing and startsWith  *)
(* are what they are in the source.                                        *)

MsPerSecond == 1000
MaxStorageOps == 3   \* calls of storage operations per behaviour
MaxClockMs == 2001   \* the last instant Date.now() reaches

\* options.ttl / setOptions.ttl left undefined
NoTtl == -1
\* StoredValue.expiry left undefined
NoExpiry == -1
\* what get returns for nothing; values are positive
NullValue == 0

\* "local": window.localStorage works and is the storage;
\* "memory": there is no window, the storage is memoryFallback;
\* "blocked": window.localStorage exists but its setItem throws (private
\* mode), so getStorage() fell back to memoryFallback
Backends == {"local", "memory", "blocked"}

\* window.localStorage exists
hasLocalStorage == cfg.backend \in {"local", "blocked"}

\* the store the module-level `storage` refers to
storageName == IF cfg.backend = "local" THEN "local" ELSE "memory"

\* the storage instances in use: two with different prefixes, one of them
\* with a default TTL of one second
StorageInstances ==
    {[prefix |-> <<"a">>, ttl |-> 1],
     [prefix |-> <<"b">>, ttl |-> NoTtl]}

StorageKeys == {<<"k">>}

\* setOptions.ttl: none, zero, two seconds
ItemTtls == {NoTtl, 0, 2}

prefixKey(inst, key) == inst.prefix \o key

\* k.startsWith(prefix)
startsWith(k, prefix) ==
    Len(k) >= Len(prefix) /\ SubSeq(k, 1, Len(prefix)) = prefix

\* JSON.stringify(stored): the text of a StoredValue
stringify(value, expiry) == [json |-> TRUE, value |-> value, expiry |-> expiry]
\* a text that is not JSON
Corrupt == [json |-> FALSE, value |-> NullValue, expiry |-> NoExpiry]

\* a store: a function from its keys to the texts stored under them
EmptyStore == [k \in {} |-> Corrupt]
setItem(store, k, text) ==
    [x \in DOMAIN store \cup {k} |-> IF x = k THEN text ELSE store[x]]
removeItem(store, k) == [x \in DOMAIN store \ {k} |-> store[x]]

\* the outcome of a call or of a try block: the stores after it, what it
\* returned, whether it warned on the console, whether it threw
Outcome(s, ret, warned) == [st |-> s, ret |-> ret, warned |-> warned, threw |-> FALSE]
Thrown(s) == [st |-> s, ret |-> NullValue, warned |-> FALSE, threw |-> TRUE]

\* try { body } catch { handler }
TryCatch(body, handler) == IF body.threw THEN handler ELSE body

\* storage.setItem throws when localStorage is the storage and is full
setItemThrows(s) == storageName = "local" /\ s.full

\* storage.setItem(k, text)
storage_setItem(s, k, text) ==
    IF setItemThrows(s) THEN Thrown(s)
    ELSE Outcome([s EXCEPT ![storageName] = setItem(@, k, text)], NullValue, FALSE)

\* a set that leaves the entry half-written when the store throws
storage_set_partial(s, inst, key, value, itemTtl) ==
    LET ttl == IF itemTtl # NoTtl THEN itemTtl ELSE inst.ttl
        expiry == IF ttl # NoTtl /\ ttl # 0
                  THEN now + ttl * MsPerSecond ELSE NoExpiry
        body == IF setItemThrows(s)
                THEN Thrown([s EXCEPT ![storageName] =
                                 setItem(@, prefixKey(inst, key), Corrupt)])
                ELSE storage_setItem(s, prefixKey(inst, key), stringify(value, expiry))
    IN  TryCatch(body, Outcome(body.st, NullValue, TRUE))

\* set(key, value, setOptions)
storage_set(s, inst, key, value, itemTtl) ==
    LET ttl == IF itemTtl # NoTtl THEN itemTtl ELSE inst.ttl
        expiry == IF ttl # NoTtl /\ ttl # 0
                  THEN now + ttl * MsPerSecond ELSE NoExpiry
        body == storage_setItem(s, prefixKey(inst, key), stringify(value, expiry))
    IN  TryCatch(body, Outcome(body.st, NullValue, TRUE))

\* remove(key)
storage_remove(s, inst, key) ==
    LET body == Outcome([s EXCEPT ![storageName] = removeItem(@, prefixKey(inst, key))],
                        NullValue, FALSE)
    IN  TryCatch(body, Outcome(body.st, NullValue, TRUE))

\* a get that takes the entry for expired from the instant of its expiry on
storage_get_early(s, inst, key) ==
    LET store == s[storageName]
        k == prefixKey(inst, key)
        body == IF k \notin DOMAIN store THEN Outcome(s, NullValue, FALSE)
                ELSE IF ~store[k].json THEN Thrown(s)
                ELSE IF store[k].expiry # NoExpiry /\ now >= store[k].expiry
                     THEN Outcome(storage_remove(s, inst, key).st, NullValue, FALSE)
                     ELSE Outcome(s, store[k].value, FALSE)
    IN  TryCatch(body, Outcome(body.st, NullValue, FALSE))

\* get(key): a missing item gives null, JSON.parse throws on a text that is
\* not JSON, an expired entry is removed
storage_get(s, inst, key) ==
    LET store == s[storageName]
        k == prefixKey(inst, key)
        body == IF k \notin DOMAIN store THEN Outcome(s, NullValue, FALSE)
                ELSE IF ~store[k].json THEN Thrown(s)
                ELSE IF store[k].expiry # NoExpiry /\ now > store[k].expiry
                     THEN Outcome(storage_remove(s, inst, key).st, NullValue, FALSE)
                     ELSE Outcome(s, store[k].value, FALSE)
    IN  TryCatch(body, Outcome(body.st, NullValue, FALSE))

\* has(key)
storage_has(s, inst, key) ==
    LET g == storage_get(s, inst, key)
    IN  [g EXCEPT !.ret = IF g.ret # NullValue THEN 1 ELSE 0]

\* clear()
storage_clear(s, inst) ==
    LET body ==
            IF inst.prefix # <<>> /\ hasLocalStorage
            THEN Outcome([s EXCEPT !.local =
                              [k \in {x \in DOMAIN @ : ~startsWith(x, inst.prefix)} |-> @[k]]],
                         NullValue, FALSE)
            ELSE Outcome([s EXCEPT ![storageName] = EmptyStore], NullValue, FALSE)
    IN  TryCatch(body, Outcome(body.st, NullValue, TRUE))

\* the value a set stores: the number of the call, so that every set
\* stores a value of its own
NextValue == nextId

\* a call, for the trace: its instance, key, the value and per-item ttl
\* passed, and its outcome
StorageEntry(op, inst, key, val, ttl, o) ==
    Entry(op, [inst |-> inst, key |-> key, val |-> val, ttl |-> ttl,
               ret |-> o.ret, warned |-> o.warned, threw |-> o.threw],
          Undefined)

\* entry x is a set that wrote its value
WroteValue(x) == x.op = "set" /\ ~x.args.warned

\* The trace of a storage keeps of the past what later calls are judged by:
\* per full key the last set that wrote it, as long as no remove of that
\* key and no clear followed, and after these the call made last.
StorageTrace(e) ==
    LET sameKey(x) ==
            prefixKey(x.args.inst, x.args.key) = prefixKey(e.args.inst, e.args.key)
        keep(x) ==
            /\ WroteValue(x)
            /\ e.op # "clear"
            /\ (e.op = "remove" \/ WroteValue(e)) => ~sameKey(x)
    IN  Append(SelectSeq(log, keep), e)

StorageCommit(op, inst, key, val, ttl, o) ==
    /\ st' = o.st
    /\ log' = StorageTrace(StorageEntry(op, inst, key, val, ttl, o))
    /\ nextId' = nextId + 1
    /\ UNCHANGED <<kind, cfg, timers, now>>

CanUseStorage == nextId <= MaxStorageOps

\* texts other scripts of the page left in localStorage: one that is not
\* JSON under a key of instance "a", one under a key outside every prefix
ForeignStore ==
    setItem(setItem(EmptyStore, <<"a", "k">>, Corrupt), <<"x">>, Corrupt)

StorageInit ==
    /\ kind = "storage"
    /\ cfg \in {[backend |-> b] : b \in Backends}
    /\ \E l \in {EmptyStore, ForeignStore} :
          /\ l = EmptyStore \/ hasLocalStorage
          /\ st = [local |-> l, memory |-> EmptyStore, full |-> FALSE]
    /\ timers = {}
    /\ nextId = 1
    /\ now = 0
    /\ log = <<>>

StorageSet ==
    /\ CanUseStorage
    /\ \E inst \in StorageInstances, key \in StorageKeys, ttl \in ItemTtls :
          StorageCommit("set", inst, key, NextValue, ttl,
                        storage_set(st, inst, key, NextValue, ttl))

StorageGet ==
    /\ CanUseStorage
    /\ \E inst \in StorageInstances, key \in StorageKeys :
          StorageCommit("get", inst, key, NullValue, NoTtl,
                        storage_get(st, inst, key))

StorageHas ==
    /\ CanUseStorage
    /\ \E inst \in StorageInstances, key \in StorageKeys :
          StorageCommit("has", inst, key, NullValue, NoTtl,
                        storage_has(st, inst, key))

StorageRemove ==
    /\ CanUseStorage
    /\ \E inst \in StorageInstances, key \in StorageKeys :
          StorageCommit("remove", inst, key, NullValue, NoTtl,
                        storage_remove(st, inst, key))

StorageClear ==
    /\ CanUseStorage
    /\ \E inst \in StorageInstances :
          StorageCommit("clear", inst, <<>>, NullValue, NoTtl,
                        storage_clear(st, inst))

\* the quota of localStorage is used up: from now on its setItem throws
QuotaExceeded ==
    /\ cfg.backend = "local" /\ ~st.full
    /\ st' = [st EXCEPT !.full = TRUE]
    /\ UNCHANGED <<kind, cfg, timers, nextId, now, log>>

\* time passes: to the next full second, or one millisecond past one
StorageAdvance ==
    /\ now' = IF now > 0 /\ now % MsPerSecond = 0
              THEN now + 1 ELSE (now \div MsPerSecond + 1) * MsPerSecond
    /\ now' <= MaxClockMs
    /\ UNCHANGED <<kind, cfg, st, timers, nextId, log>>

StorageNext ==
    \/ StorageSet
    \/ StorageGet
    \/ StorageHas
    \/ StorageRemove
    \/ StorageClear
    \/ QuotaExceeded
    \/ StorageAdvance

StorageSpec == StorageInit /\ [][StorageNext]_vars

(***************************************************************************)
(* Claims about createStorage                                              *)
(***************************************************************************)

\* the storage call made last
LastCall == log[Len(log)]

\* the sets that wrote the key call e reads and were followed by no set and
\* no remove of that key and by no clear
GoverningSets(e) ==
    {i \in 1..(Len(log) - 1) :
        /\ WroteValue(log[i])
        /\ prefixKey(log[i].args.inst, log[i].args.key)
               = prefixKey(e.args.inst, e.args.key)}

\* the TTL a set asked for: the per-item ttl when given, otherwise the
\* default of the instance
RequestedTtl(x) ==
    IF x.args.ttl # NoTtl THEN x.args.ttl ELSE x.args.inst.ttl

\* get e returned the value set x stored, has e reported true
Found(e, x) == e.args.ret = (IF e.op = "get" THEN x.args.val ELSE 1)

\* get e returned null, has e reported false, and the key is gone from the
\* backing store
FoundExpired(e) ==
    /\ e.args.ret = NullValue
    /\ prefixKey(e.args.inst, e.args.key) \notin DOMAIN st[storageName]

\* C23: a value set with a TTL of t seconds (the per-item ttl when given,
\* otherwise the default of the instance) is returned by get and reported
\* by has until t seconds have passed since the set; afterwards get returns
\* null, has reports false and the entry is removed from the backing store.
\* A value set with no TTL never expires.
ExpiresAfterTtl ==
    (kind = "storage" /\ log # <<>> /\ LastCall.op \in {"get", "has"}) =>
        \A i \in GoverningSets(LastCall) :
            LET x == log[i]
                ttl == RequestedTtl(x)
            IN  IF ttl = NoTtl \/ LastCall.t <= x.t + ttl * MsPerSecond
                THEN Found(LastCall, x)
                ELSE FoundExpired(LastCall)

\* C23, amended: a value set with a TTL of t > 0 seconds is returned by get
\* and reported by has until t seconds have passed since the set, the
\* instant of expiry included; afterwards get returns null, has reports
\* false and the entry is removed from the backing store.  A value set with
\* no TTL or with a TTL of 0 never expires.
ExpiresAfterPositiveTtl ==
    (kind = "storage" /\ log # <<>> /\ LastCall.op \in {"get", "has"}) =>
        \A i \in GoverningSets(LastCall) :
            LET x == log[i]
                ttl == RequestedTtl(x)
            IN  IF ttl = NoTtl \/ ttl = 0 \/ LastCall.t <= x.t + ttl * MsPerSecond
                THEN Found(LastCall, x)
                ELSE FoundExpired(LastCall)

\* a has finds the value of a set with a per-item TTL gone, one millisecond
\* after its TTL has passed
ExpiresAfterPositiveTtl_Witness ==
    /\ kind = "storage" /\ log # <<>> /\ LastCall.op = "has"
    /\ \E i \in GoverningSets(LastCall) :
          /\ log[i].args.ttl > 0
          /\ LastCall.t = log[i].t + log[i].args.ttl * MsPerSecond + 1
          /\ FoundExpired(LastCall)

\* C24: clear() on a storage with a non-empty prefix removes exactly the
\* entries of the backing store whose key starts with that prefix and
\* leaves every other entry unchanged, whether the backing store is
\* localStorage or the in-memory fallback; so entries written through a
\* storage with a different prefix stay readable.
ClearRemovesOnlyPrefix ==
    [][(kind = "storage" /\ nextId' = nextId + 1
            /\ log'[Len(log')].op = "clear"
            /\ log'[Len(log')].args.inst.prefix # <<>>) =>
        LET prefix == log'[Len(log')].args.inst.prefix
            before == st[storageName]
            after == st'[storageName]
        IN  /\ DOMAIN after = {k \in DOMAIN before : ~startsWith(k, prefix)}
            /\ \A k \in DOMAIN after : after[k] = before[k]]_vars

\* C25: set, get, remove and clear never throw: when the backing store
\* throws on a write (quota exceeded), set logs a warning and what was
\* stored under that key, like the rest of the store, is unchanged; when
\* the stored text is not valid JSON, get returns null.
StorageNeverThrows ==
    [][(kind = "storage" /\ nextId' = nextId + 1
            /\ log'[Len(log')].op \in {"set", "get", "remove", "clear"}) =>
        LET e == log'[Len(log')]
            k == prefixKey(e.args.inst, e.args.key)
            store == st[storageName]
        IN  /\ ~e.args.threw
            /\ (e.op = "set" /\ setItemThrows(st)) =>
                   (e.args.warned /\ st' = st)
            /\ (e.op = "get" /\ k \in DOMAIN store /\ ~store[k].json) =>
                   e.args.ret = NullValue]_vars

\* a set has failed on a full localStorage, and the key still holds the
\* value an earlier set stored
StorageNeverThrows_Witness ==
    /\ kind = "storage" /\ log # <<>>
    /\ LastCall.op = "set" /\ LastCall.args.warned
    /\ \E i \in GoverningSets(LastCall) :
          /\ prefixKey(LastCall.args.inst, LastCall.args.key) \in DOMAIN st[storageName]
          /\ st[storageName][prefixKey(LastCall.args.inst, LastCall.args.key)].value
                 = log[i].args.val

(***************************************************************************)
(* click-outside-lite: onClickOutside(target, callback, options)           *)
(*                                                                         *)
(* A behaviour of kind "click" follows one call of onClickOutside.  cfg    *)
(* holds its options and whether any target element was found; st holds    *)
(* isActive and the event types under which the listener is registered on  *)
(* the document; log records the events dispatched, the invocations of     *)
(* the callback and the calls of the returned cleanup function.            *)
(***************************************************************************)

MaxClickOps == 3   \* events dispatched and cleanup calls per behaviour

EventTypes == {"mousedown", "touchstart", "click"}

\* options.events: the default, and a custom list
EventLists == {{"mousedown", "touchstart"}, {"click"}}

\* the selector of options.ignore
IgnoreSelector == ".ignore-me"

\* where the target of an event lies: in a target element, in an element
\* matching IgnoreSelector (and in no target element), or elsewhere
Wheres == {"target", IgnoreSelector, "elsewhere"}

\* what the callback does when invoked: return, throw, or dispatch a
\* further event synchronously before it returns
Behaviours == {"returns", "throws", "dispatches"}

ClickConfigs ==
    [once : BOOLEAN, events : EventLists, ignore : {{}, {IgnoreSelector}},
     found : BOOLEAN]

ClickEvent(type, where, does) == [type |-> type, where |-> where, does |-> does]
NoEvent == ClickEvent("none", "none", "none")

\* the event a dispatching callback dispatches: of a registered type, away
\* from the target and ignored elements, to which the callback just returns
NestedEvent(ev) == ClickEvent(ev.type, "elsewhere", "returns")

ClickMach(s, out) == [st |-> s, out |-> out]
ClickEmit(m, op, ev) == [m EXCEPT !.out = Append(@, Entry(op, ev, Undefined))]

\* events.forEach(eventType => document.addEventListener(...))
click_new == [isActive |-> cfg.found,
              listeners |-> IF cfg.found THEN cfg.events ELSE {}]

\* a cleanup that leaves the listener registered and active
click_cleanup_idle(m) == m

\* cleanup()
click_cleanup(m) ==
    [m EXCEPT !.st.isActive = FALSE,
              !.st.listeners = @ \ cfg.events]

RECURSIVE click_listener(_, _)

\* document dispatching ev to the listeners registered for its type
click_dispatch(m, ev) ==
    IF ev.type \in m.st.listeners
    THEN click_listener(ClickEmit(m, "dispatch", ev), ev)
    ELSE ClickEmit(m, "dispatch", ev)

\* callback(event), with what the callback does before it returns
click_callback(m, ev) ==
    IF ev.does = "dispatches"
    THEN click_dispatch(ClickEmit(m, "callback", ev), NestedEvent(ev))
    ELSE ClickEmit(m, "callback", ev)

\* listener(event)
click_listener(m, ev) ==
    IF ~m.st.isActive THEN m
    ELSE IF ev.where = "target" THEN m
    ELSE IF cfg.ignore # {} /\ ev.where \in cfg.ignore THEN m
    ELSE LET called == click_callback(m, ev)
         IN  IF ev.does = "throws" THEN called
             ELSE IF cfg.once THEN click_cleanup(called)
             ELSE called

ClickCommit(m) ==
    /\ st' = m.st
    /\ log' = log \o m.out
    /\ nextId' = nextId + 1
    /\ UNCHANGED <<kind, cfg, timers, now>>

ClickInit ==
    /\ kind = "click"
    /\ cfg \in ClickConfigs
    /\ st = click_new
    /\ timers = {}
    /\ nextId = 1
    /\ now = 0
    /\ log = <<>>

\* the page dispatches an event; what the callback does matters only when
\* the event is one the callback can be invoked for
ClickDispatch ==
    /\ nextId <= MaxClickOps
    /\ \E type \in EventTypes, where \in Wheres, does \in Behaviours :
          /\ does # "returns" =>
                 (type \in st.listeners /\ where # "target" /\ where \notin cfg.ignore)
          /\ ClickCommit(click_dispatch(ClickMach(st, <<>>),
                                        ClickEvent(type, where, does)))

\* the caller calls the function onClickOutside returned: cleanup, or the
\* empty function when no element was found
ClickCleanup ==
    /\ nextId <= MaxClickOps
    /\ LET m == ClickEmit(ClickMach(st, <<>>), "cleanup", NoEvent)
       IN  ClickCommit(IF cfg.found THEN click_cleanup(m) ELSE m)

ClickNext ==
    \/ ClickDispatch
    \/ ClickCleanup

ClickSpec == ClickInit /\ [][ClickNext]_vars

(***************************************************************************)
(* Claims about onClickOutside                                             *)
(***************************************************************************)

\* the caller has called the returned cleanup function
CleanupCalled == \E i \in 1..Len(log) : log[i].op = "cleanup"

\* the callback is invoked during the step
CallbackInvoked ==
    \E j \in (Len(log) + 1)..Len(log') : log'[j].op = "callback"

\* C26: after the returned cleanup function has been called, the callback
\* is never invoked for any later event of any registered event type;
\* calling cleanup again, or calling the cleanup returned when no element
\* was found, changes nothing.
CleanupStopsCallback ==
    [][kind = "click" =>
        /\ CleanupCalled => ~CallbackInvoked
        /\ (nextId' = nextId + 1 /\ log'[Len(log')].op = "cleanup"
                /\ (CleanupCalled \/ ~cfg.found)) => st' = st]_vars

\* after a cleanup an event of a registered type was dispatched away from
\* the target and ignored elements, and the callback was not invoked; then
\* cleanup was called again
CleanupStopsCallback_Witness ==
    /\ kind = "click" /\ cfg.found /\ Len(log) = 3
    /\ log[1].op = "cleanup"
    /\ log[2].op = "dispatch" /\ log[2].args.where = "elsewhere"
    /\ log[2].args.type \in cfg.events
    /\ log[3].op = "cleanup"

\* the positions of the callback's invocations in the trace
Callbacks == {j \in 1..Len(log) : log[j].op = "callback"}

\* entry e is an event of a registered type whose target is outside every
\* target element and outside every ignored element
Qualifies(e) ==
    /\ e.op = "dispatch"
    /\ e.args.type \in cfg.events
    /\ e.args.where # "target"
    /\ e.args.where \notin cfg.ignore

\* the first such event, dispatched while the listener was in place
FirstOutside(i) ==
    /\ cfg.found
    /\ Qualifies(log[i])
    /\ \A h \in 1..(i - 1) : ~Qualifies(log[h]) /\ log[h].op # "cleanup"

\* C27: with once = true, over any sequence of events of all registered
\* types, the callback is invoked at most once, namely for the first event
\* whose target is outside every target element and every ignored element;
\* events inside a target or ignored element never invoke it and do not
\* use up the single trigger.
OnceInvokesOnce ==
    (kind = "click" /\ cfg.once) =>
        /\ Cardinality(Callbacks) <= 1
        /\ \A j \in Callbacks : j > 1 /\ FirstOutside(j - 1)
        /\ \A i \in 1..Len(log) : FirstOutside(i) =>
               (i < Len(log) /\ log[i + 1].op = "callback")

(***************************************************************************)
(* mermaid-export: the shared browser of renderToSvg / renderToBuffer      *)
(*                                                                         *)
(* A behaviour of kind "mermaid" follows the module variable               *)
(* browserInstance under calls of the render functions and of              *)
(* closeBrowser that run concurrently: each call is a process that is      *)
(* suspended at its awaits, and the steps between two awaits are atomic.   *)
(* st.browserInstance is the variable (NoBrowser for null), st.connected   *)
(* maps every browser launched so far to whether it is still connected,    *)
(* st.pc is each call's position, st.browser the browser a call holds,     *)
(* st.calls counts the calls begun; nextId numbers the browsers.           *)
(***************************************************************************)

MaxRenderCalls == 4   \* calls of render functions and closeBrowser begun
MaxBrowsers == 3      \* browsers launched per behaviour

NoBrowser == 0
Renderers == {"render1", "render2"}
Closer == "close"

\* !browserInstance || !browserInstance.connected
NeedsLaunch(s) ==
    s.browserInstance = NoBrowser \/ ~s.connected[s.browserInstance]

\* getBrowser after its await: puppeteer.launch() has resolved with browser
\* b, which is assigned to browserInstance and returned
mermaid_launched(s, p, b) ==
    [s EXCEPT !.connected = [x \in DOMAIN @ \cup {b} |-> IF x = b THEN TRUE ELSE @[x]],
              !.browserInstance = b,
              !.browser[p] = b,
              !.pc[p] = "page"]

\* renderToSvg / renderToBuffer up to the first await inside getBrowser
mermaid_getBrowser(s, p) ==
    IF NeedsLaunch(s)
    THEN [s EXCEPT !.pc[p] = "launching", !.calls = @ + 1]
    ELSE [s EXCEPT !.pc[p] = "page", !.browser[p] = s.browserInstance,
                   !.calls = @ + 1]

\* the rest of a render: newPage, the rendering, page.close in finally
mermaid_render(s, p) ==
    [s EXCEPT !.pc[p] = "idle", !.browser[p] = NoBrowser]

\* closeBrowser up to its await
mermaid_closeBrowser(s) ==
    IF s.browserInstance # NoBrowser /\ s.connected[s.browserInstance]
    THEN [s EXCEPT !.pc[Closer] = "closing", !.browser[Closer] = s.browserInstance,
                   !.calls = @ + 1]
    ELSE [s EXCEPT !.calls = @ + 1]

\* closeBrowser after its await: the browser is closed
mermaid_closed(s) ==
    [s EXCEPT !.connected[s.browser[Closer]] = FALSE,
              !.browserInstance = NoBrowser,
              !.browser[Closer] = NoBrowser,
              !.pc[Closer] = "idle"]

MermaidInit ==
    /\ kind = "mermaid"
    /\ cfg = [procs |-> Renderers \cup {Closer}]
    /\ st = [browserInstance |-> NoBrowser,
             connected |-> [b \in {} |-> TRUE],
             pc |-> [p \in Renderers \cup {Closer} |-> "idle"],
             browser |-> [p \in Renderers \cup {Closer} |-> NoBrowser],
             calls |-> 0]
    /\ timers = {}
    /\ nextId = 1
    /\ now = 0
    /\ log = <<>>

\* browsers being launched
Launching == {p \in Renderers : st.pc[p] = "launching"}

RenderCall ==
    /\ st.calls < MaxRenderCalls
    /\ \E p \in Renderers :
          /\ st.pc[p] = "idle"
          /\ NeedsLaunch(st) => nextId + Cardinality(Launching) <= MaxBrowsers
          /\ st' = mermaid_getBrowser(st, p)
    /\ UNCHANGED <<kind, cfg, timers, nextId, now, log>>

LaunchResolves ==
    /\ \E p \in Launching : st' = mermaid_launched(st, p, nextId)
    /\ nextId' = nextId + 1
    /\ UNCHANGED <<kind, cfg, timers, now, log>>

RenderFinishes ==
    /\ \E p \in Renderers :
          /\ st.pc[p] = "page"
          /\ st' = mermaid_render(st, p)
    /\ UNCHANGED <<kind, cfg, timers, nextId, now, log>>

CloseCall ==
    /\ st.calls < MaxRenderCalls
    /\ st.pc[Closer] = "idle"
    /\ st' = mermaid_closeBrowser(st)
    /\ UNCHANGED <<kind, cfg, timers, nextId, now, log>>

CloseResolves ==
    /\ st.pc[Closer] = "closing"
    /\ st' = mermaid_closed(st)
    /\ UNCHANGED <<kind, cfg, timers, nextId, now, log>>

\* a browser loses its connection: it crashed, or it is being closed
BrowserDisconnects ==
    /\ \E b \in DOMAIN st.connected :
          /\ st.connected[b]
          /\ st' = [st EXCEPT !.connected[b] = FALSE]
    /\ UNCHANGED <<kind, cfg, timers, nextId, now, log>>

MermaidNext ==
    \/ RenderCall
    \/ LaunchResolves
    \/ RenderFinishes
    \/ CloseCall
    \/ CloseResolves
    \/ BrowserDisconnects

MermaidSpec == MermaidInit /\ [][MermaidNext]_vars

(***************************************************************************)
(* Claims about the shared browser                                         *)
(***************************************************************************)

\* browsers that are running and that browserInstance does not refer to
Unreferenced ==
    {b \in DOMAIN st.connected : st.connected[b] /\ st.browserInstance # b}

\* C28: all renders share one browser instance: over any interleaving of
\* concurrent render calls and closeBrowser, at most one browser is being
\* launched at a time, and no launched browser is ever left running without
\* browserInstance referring to it.
OneSharedBrowser ==
    kind = "mermaid" =>
        /\ Cardinality(Launching) <= 1
        /\ Unreferenced = {}

(***************************************************************************)
(* deep-merge-lite: merge(target, ...sources, options) and cloneDeep       *)
(*                                                                         *)
(* A behaviour of kind "merge" follows one call merge({}, s1, s2, options) *)
(* and what the caller does to the result afterwards.  Objects have        *)
(* identity: st.heap is the sequence of all objects, an object's address   *)
(* is its index, and a value is a primitive or a reference to an address.  *)
(* Address 1 is Object.prototype.  An object has own properties, a         *)
(* prototype, and, as an array or a Date, its items or its time.           *)
(* st.target and st.sources are the arguments, st.original is what the     *)
(* sources held when merge was called; cfg.arrayMerge is the strategy.     *)
(***************************************************************************)

MaxMutations == 1   \* writes the caller makes to the result after merge

Val(tag, v) == [tag |-> tag, v |-> v]
Undef == Val("undefined", 0)
Prim(n) == Val("prim", n)
Ref(a) == Val("ref", a)
\* the function Object, the value of Object.prototype.constructor
ObjectFn == Val("function", 0)
\* the prototype of arrays, Dates and RegExps, whose constructor is not Object
BuiltinProto == Val("builtin", 0)
NullProto == Val("null", 0)

ObjectPrototype == 1

NoOwn == [k \in {} |-> Undef]
HeapObject(type, own, items, proto) ==
    [type |-> type, own |-> own, items |-> items, proto |-> proto]

\* the heap before anything is created
EmptyHeap ==
    <<HeapObject("object", [k \in {"constructor"} |-> ObjectFn], <<>>, NullProto)>>

DangerousKeys == {"__proto__", "constructor", "prototype"}
ArrayMergeStrategies == {"replace", "concat", "union"}

\* Object.keys(h[a]): the own enumerable properties
ObjectKeys(h, a) ==
    IF a = ObjectPrototype THEN DOMAIN h[a].own \ {"constructor"}
    ELSE DOMAIN h[a].own

RECURSIVE GetProperty(_, _, _)
\* h[a][key]: an own property, or one found along the prototype chain;
\* __proto__ that is not an own property reads the prototype
GetProperty(h, a, key) ==
    LET o == h[a]
    IN  IF key \in DOMAIN o.own THEN o.own[key]
        ELSE IF key = "__proto__" THEN o.proto
        ELSE IF o.proto.tag = "ref" THEN GetProperty(h, o.proto.v, key)
        ELSE Undef

\* h[a][key] = v: an assignment to __proto__ that is not an own property
\* goes to the setter of Object.prototype and replaces the prototype when v
\* is an object
SetProperty(h, a, key, v) ==
    IF key = "__proto__" /\ key \notin DOMAIN h[a].own
    THEN IF v.tag = "ref" THEN [h EXCEPT ![a].proto = v] ELSE h
    ELSE [h EXCEPT ![a].own =
              [k \in DOMAIN @ \cup {key} |-> IF k = key THEN v ELSE @[k]]]

isArray(h, v) == v.tag = "ref" /\ h[v.v].type = "array"

\* item !== null && typeof item === 'object' && item.constructor === Object
isPlainObject(h, v) ==
    v.tag = "ref" /\ GetProperty(h, v.v, "constructor") = ObjectFn

\* a heap together with a value in it: what a function that allocates returns
Made(h, v) == [h |-> h, v |-> v]

\* new WeakMap(): `seen` maps the objects already cloned to their clones
NewWeakMap == [a \in {} |-> 0]

\* a heap, a value in it and the `seen` map: what cloneDeep leaves behind
Cloned(h, v, seen) == [h |-> h, v |-> v, seen |-> seen]

RECURSIVE cloneDeep(_, _, _)
RECURSIVE cloneDeep_items(_, _, _, _)
RECURSIVE cloneDeep_keys(_, _, _, _)

\* for (i ...) clone[i] = cloneDeep(value[i], seen)
cloneDeep_items(c, clone, value, i) ==
    IF i > Len(c.h[value].items) THEN c
    ELSE LET item == cloneDeep(c.h, c.h[value].items[i], c.seen)
         IN  cloneDeep_items(
                 [item EXCEPT !.h = [@ EXCEPT ![clone].items = Append(@, item.v)]],
                 clone, value, i + 1)

\* for (key of Object.keys(value)) clone[key] = cloneDeep(value[key], seen)
cloneDeep_keys(c, clone, value, keys) ==
    IF keys = {} THEN c
    ELSE LET key == CHOOSE k \in keys : TRUE
             prop == cloneDeep(c.h, c.h[value].own[key], c.seen)
         IN  cloneDeep_keys(
                 [prop EXCEPT !.h = SetProperty(@, clone, key, prop.v)],
                 clone, value, keys \ {key})

\* cloneDeep(value, seen): an object met again is answered from `seen`
cloneDeep(h, value, seen) ==
    IF value.tag # "ref" THEN Cloned(h, value, seen)
    ELSE IF value.v \in DOMAIN seen THEN Cloned(h, Ref(seen[value.v]), seen)
    ELSE LET o == h[value.v]
             clone == Len(h) + 1
             seen1 == seen @@ (value.v :> clone)
         IN  IF o.type = "array"
             THEN [cloneDeep_items(
                       Cloned(Append(h, HeapObject("array", NoOwn, <<>>, BuiltinProto)),
                              Ref(clone), seen1),
                       clone, value.v, 1)
                   EXCEPT !.v = Ref(clone)]
             ELSE IF o.type \in {"date", "regexp"}
             THEN Cloned(Append(h, HeapObject(o.type, NoOwn, o.items, BuiltinProto)),
                         Ref(clone), seen)
             ELSE IF isPlainObject(h, value)
             THEN [cloneDeep_keys(
                       Cloned(Append(h, HeapObject("object", NoOwn, <<>>,
                                                   Ref(ObjectPrototype))),
                              Ref(clone), seen1),
                       clone, value.v, ObjectKeys(h, value.v))
                   EXCEPT !.v = Ref(clone)]
             ELSE Cloned(h, value, seen)

RECURSIVE Distinct(_)
\* [...new Set(items)]: the items without repetitions, in order
Distinct(items) ==
    IF items = <<>> THEN <<>>
    ELSE LET front == Distinct(SubSeq(items, 1, Len(items) - 1))
             last == items[Len(items)]
         IN  IF \E i \in 1..Len(front) : front[i] = last
             THEN front ELSE Append(front, last)

\* mergeArrays(target, source, strategy), for the named strategies
mergeArrays(h, target, source, strategy) ==
    IF strategy = "concat"
    THEN Made(Append(h, HeapObject("array", NoOwn,
                                   h[target].items \o h[source].items, BuiltinProto)),
              Ref(Len(h) + 1))
    ELSE IF strategy = "union"
    THEN Made(Append(h, HeapObject("array", NoOwn,
                                   Distinct(h[target].items \o h[source].items),
                                   BuiltinProto)),
              Ref(Len(h) + 1))
    ELSE Made(h, Ref(source))

\* RangeError: Maximum call stack size exceeded.  deepMergeTwo has no
\* `seen`: a call whose heap and arguments are those of a call that is
\* still on the stack repeats that call's steps and recurses without end,
\* which the engine ends by throwing.  The error object is left as the last
\* object of the heap.
RangeError == HeapObject("RangeError", NoOwn, <<>>, BuiltinProto)
Threw(h) == \E a \in DOMAIN h : h[a].type = "RangeError"
Frame(h, target, source) == [h |-> h, target |-> target, source |-> source]

RECURSIVE deepMergeTwo(_, _, _, _, _)
RECURSIVE deepMergeTwo_keys(_, _, _, _, _, _)

\* the body of the loop of deepMergeTwo for one key, without customMerge
deepMergeTwo_key(h, target, source, options, key, stack) ==
    IF key \in DangerousKeys THEN h
    ELSE LET sourceValue == GetProperty(h, source, key)
             targetValue == GetProperty(h, target, key)
             cloned == cloneDeep(h, sourceValue, NewWeakMap)
         IN  IF isArray(h, sourceValue) /\ isArray(h, targetValue)
             THEN LET merged == mergeArrays(h, targetValue.v, sourceValue.v,
                                            options.arrayMerge)
                  IN  SetProperty(merged.h, target, key, merged.v)
             ELSE IF ~isArray(h, sourceValue) /\ isPlainObject(h, sourceValue)
                         /\ isPlainObject(h, targetValue)
             THEN deepMergeTwo(h, targetValue.v, sourceValue.v, options, stack)
             ELSE SetProperty(cloned.h, target, key, cloned.v)

\* an exception leaves the loop
deepMergeTwo_keys(h, target, source, options, keys, stack) ==
    IF keys = {} \/ Threw(h) THEN h
    ELSE LET key == CHOOSE k \in keys : TRUE
         IN  deepMergeTwo_keys(
                 deepMergeTwo_key(h, target, source, options, key, stack),
                 target, source, options, keys \ {key}, stack)

\* deepMergeTwo(target, source, options), called from the calls in stack
deepMergeTwo(h, target, source, options, stack) ==
    IF Frame(h, target, source) \in stack THEN Append(h, RangeError)
    ELSE deepMergeTwo_keys(h, target, source, options, ObjectKeys(h, source),
                           stack \cup {Frame(h, target, source)})

RECURSIVE merge_sources(_, _, _, _, _)
merge_sources(h, target, sources, options, i) ==
    IF i > Len(sources) \/ Threw(h) THEN h
    ELSE merge_sources(IF isPlainObject(h, Ref(sources[i]))
                       THEN deepMergeTwo(h, target, sources[i], options, {})
                       ELSE h,
                       target, sources, options, i + 1)

\* merge(target, ...sources, options): the heap after it; it returns target
merge(h, target, sources, options) == merge_sources(h, target, sources, options, 1)

\* Descriptions of the values the caller passes: a primitive, an object
\* with its own properties, an array, a Date
TPrim(n) == [type |-> "prim", n |-> n, own |-> <<>>, items |-> <<>>]
TObject(own) == [type |-> "object", n |-> 0, own |-> own, items |-> <<>>]
TArray(items) == [type |-> "array", n |-> 0, own |-> <<>>, items |-> items]
TDate(n) == [type |-> "date", n |-> n, own |-> <<>>, items |-> <<>>]

\* the sources in use; those with a __proto__ property come from JSON.parse
SourceShapes ==
    {TObject("a" :> TPrim(1)),
     TObject("a" :> TObject("b" :> TPrim(1))),
     TObject("a" :> TArray(<<TPrim(1), TPrim(2)>>)),
     TObject("a" :> TArray(<<TObject("b" :> TPrim(1))>>)),
     TObject("a" :> TDate(1)),
     TObject("__proto__" :> TObject("b" :> TPrim(1))),
     TObject("a" :> TObject("__proto__" :> TObject("b" :> TPrim(1)))),
     TObject("a" :> TObject("prototype" :> TPrim(1))),
     TObject("a" :> TObject("constructor" :> TPrim(1))),
     TObject(("constructor" :> TPrim(1)) @@ ("b" :> TPrim(2)))}

RECURSIVE Build(_, _)
RECURSIVE Build_items(_, _, _, _)
RECURSIVE Build_keys(_, _, _, _)

Build_items(h, a, items, i) ==
    IF i > Len(items) THEN h
    ELSE LET item == Build(h, items[i])
         IN  Build_items([item.h EXCEPT ![a].items = Append(@, item.v)],
                         a, items, i + 1)

\* own properties are defined, not assigned: __proto__ becomes an own one
Build_keys(h, a, own, keys) ==
    IF keys = {} THEN h
    ELSE LET key == CHOOSE k \in keys : TRUE
             prop == Build(h, own[key])
         IN  Build_keys([prop.h EXCEPT ![a].own =
                             [k \in DOMAIN @ \cup {key} |->
                                 IF k = key THEN prop.v ELSE @[k]]],
                        a, own, keys \ {key})

\* the object a description describes, created in heap h
Build(h, t) ==
    LET a == Len(h) + 1
    IN  IF t.type = "prim" THEN Made(h, Prim(t.n))
        ELSE IF t.type = "date"
        THEN Made(Append(h, HeapObject("date", NoOwn, <<Prim(t.n)>>, BuiltinProto)),
                  Ref(a))
        ELSE IF t.type = "array"
        THEN Made(Build_items(Append(h, HeapObject("array", NoOwn, <<>>, BuiltinProto)),
                              a, t.items, 1),
                  Ref(a))
        ELSE Made(Build_keys(Append(h, HeapObject("object", NoOwn, <<>>,
                                                  Ref(ObjectPrototype))),
                             a, t.own, DOMAIN t.own),
                  Ref(a))

\* the values directly held by the object at address a
Held(h, a) ==
    {h[a].own[k] : k \in ObjectKeys(h, a)}
        \cup {h[a].items[i] : i \in 1..Len(h[a].items)}

RECURSIVE Reach(_, _, _)
\* the addresses reachable from those in todo through properties and items
Reach(h, todo, done) ==
    IF todo = {} THEN done
    ELSE LET a == CHOOSE x \in todo : TRUE
             next == {v.v : v \in {x \in Held(h, a) : x.tag = "ref"}}
         IN  Reach(h, (todo \cup next) \ (done \cup {a}), done \cup {a})

\* the objects of the result of merge
Result == Reach(st.heap, {st.target}, {})

\* the objects the sources consisted of when merge was called
SourceObjects == Reach(st.original, {st.sources[i] : i \in 1..Len(st.sources)}, {})

\* the caller writes to an object: a new property, a further item, setTime
Mutated(h, a) ==
    IF h[a].type = "object" THEN SetProperty(h, a, "m", Prim(9))
    ELSE IF h[a].type = "array" THEN [h EXCEPT ![a].items = Append(@, Prim(9))]
    ELSE [h EXCEPT ![a].items = <<Prim(9)>>]

MergeInit ==
    /\ kind = "merge"
    /\ cfg \in [arrayMerge : ArrayMergeStrategies]
    /\ \E s1 \in SourceShapes, s2 \in SourceShapes :
          LET target == Build(EmptyHeap, TObject(<<>>))
              first == Build(target.h, s1)
              second == Build(first.h, s2)
          IN  st = [heap |-> second.h, original |-> second.h,
                    target |-> target.v.v,
                    sources |-> <<first.v.v, second.v.v>>,
                    merged |-> FALSE, mutations |-> 0]
    /\ timers = {}
    /\ nextId = 1
    /\ now = 0
    /\ log = <<>>

\* const result = merge({}, s1, s2, {arrayMerge})
MergeCall ==
    /\ ~st.merged
    /\ st' = [st EXCEPT !.heap = merge(st.heap, st.target, st.sources, cfg),
                        !.merged = TRUE]
    /\ UNCHANGED <<kind, cfg, timers, nextId, now, log>>

\* afterwards the caller writes to an object of the result
MutateResult ==
    /\ st.merged /\ st.mutations < MaxMutations
    /\ \E a \in Result :
          st' = [st EXCEPT !.heap = Mutated(st.heap, a), !.mutations = @ + 1]
    /\ UNCHANGED <<kind, cfg, timers, nextId, now, log>>

MergeNext ==
    \/ MergeCall
    \/ MutateResult

MergeSpec == MergeInit /\ [][MergeNext]_vars

(***************************************************************************)
(* Claims about merge                                                      *)
(***************************************************************************)

\* C29: merge never copies a key named __proto__, constructor or prototype
\* from any source into the result, at any nesting depth, the values that
\* are deep-cloned into the target included, and never modifies
\* Object.prototype.
NoDangerousKeys ==
    (kind = "merge" /\ st.merged) =>
        /\ \A a \in Result : ObjectKeys(st.heap, a) \cap DangerousKeys = {}
        /\ st.heap[ObjectPrototype] = EmptyHeap[ObjectPrototype]

\* C30: merge never mutates its source objects, and every object, array,
\* Date or RegExp that reaches the result from a source is a fresh copy,
\* for every arrayMerge strategy: writing to the result afterwards never
\* changes any source.
SourcesUntouched ==
    kind = "merge" =>
        /\ \A a \in SourceObjects : st.heap[a] = st.original[a]
        /\ Result \cap SourceObjects = {}

(***************************************************************************)
(* A further claim about resilientFetch                                    *)
(***************************************************************************)

\* the timeout timers that are live
TimeoutTimers == {x \in timers : x.cb = "abort"}

\* C36: the timeout timer of an attempt is cleared as soon as the attempt
\* settles (success, non-ok response or error): at most one timeout timer
\* is live at any time, a live one is that of the attempt whose fetch() is
\* in flight, so the timer of an earlier attempt never aborts a later one,
\* and none is live once the returned promise has settled.
TimeoutTimerCleared ==
    kind = "fetch" =>
        /\ Cardinality(TimeoutTimers) <= 1
        /\ \A x \in TimeoutTimers : st.pc = "fetching" /\ x.id = st.timeoutId
        /\ st.pc = "done" => timers = {}

\* the second attempt is in flight with its own timeout timer, the first
\* having ended in a response that was retried
TimeoutTimerCleared_Witness ==
    /\ kind = "fetch" /\ st.pc = "fetching"
    /\ NumFetches = 2
    /\ Cardinality(TimeoutTimers) = 1
    /\ \E i \in Ops({"response"}) : log[i].args = Response(500)

(***************************************************************************)
(* Further claims about debounce and throttle                              *)
(***************************************************************************)

\* the handler that ran last is the cooldown timer, and it made the
\* trailing delivery of a pending call
TrailingDeliveryMade ==
    /\ kind = "throttle" /\ Len(log) >= 2
    /\ log[Len(log) - 1].op = "cooldown"
    /\ log[Len(log)].op = "deliver"

\* C32: when the cooldown timer of a throttle fires with a call pending,
\* the trailing delivery is made by re-invoking the controller, after which
\* the controller is in cooldown with exactly one cooldown timer, due wait
\* ms after the delivery, and no pending call: the re-invocation schedules
\* no second timer.
TrailingReopensWindow ==
    TrailingDeliveryMade =>
        /\ st.inThrottle
        /\ st.lastArgs = NoArgs
        /\ timers = {[id |-> st.timeoutId, cb |-> "cooldown",
                      due |-> log[Len(log)].t + cfg.wait]}

\* the trailing delivery of a suppressed call has reopened the window of a
\* throttle with wait > 0, and the clock has moved on within it
TrailingReopensWindow_Witness ==
    /\ TrailingDeliveryMade
    /\ cfg.wait > 0
    /\ now > log[Len(log)].t
    /\ log[Len(log)] = DeliveryOf(LastBefore(Len(log), {"invoke"}), log[Len(log)].t)

\* the wait timer callback at position i ends a burst that consisted of one
\* call, delivered on the leading edge
EndsSingleCallBurst(i) ==
    /\ log[i].op = "wait" /\ i >= 3
    /\ log[i - 2].op = "invoke" /\ DeliveredInCall(i - 2)

\* C33: no invoke's arguments are delivered more than once, in debounce,
\* throttle and throttle.raf: every delivery clears the pending arguments,
\* and in a debounce with leading and trailing both enabled a burst of a
\* single call yields the leading delivery only, with no trailing delivery
\* when the wait timer fires.
DeliveredAtMostOnce ==
    kind \in Kinds =>
        /\ \A i \in Ops({"deliver"}) : \A j \in Ops({"deliver"}) :
              i # j => log[i].args # log[j].args
        /\ LastHandlerDelivered => st.lastArgs = NoArgs
        /\ (kind = "debounce" /\ cfg.leading /\ cfg.trailing) =>
              \A i \in Idx : EndsSingleCallBurst(i) => ~FollowedByDelivery(i)

\* a debounce with leading and trailing: one call, delivered on the leading
\* edge; its wait timer has fired and delivered nothing
DeliveredAtMostOnce_Witness ==
    /\ kind = "debounce" /\ cfg.leading /\ cfg.trailing /\ cfg.wait > 0
    /\ Len(log) = 3
    /\ EndsSingleCallBurst(3)
    /\ timers = {}

\* C34: in every reachable state of a debounce, if a call's arguments are
\* pending then a wait timer or a maxWait timer is live that will deliver
\* them; whenever no timer is live nothing is pending, so that flush() then
\* delivers nothing; in particular the calls a debounce with leading = true,
\* trailing = false and no maxWait suppresses leave no pending call behind.
PendingHasTimer ==
    kind = "debounce" =>
        /\ st.lastArgs # NoArgs =>
               \E x \in timers : x.id \in {st.timeoutId, st.maxTimeoutId}
        /\ timers = {} => debounce_flush(Mach).out = <<>>

----------------------------------------------------------------------------
(* throttle with a wrapped action that throws *)

\* a throttled that enters the cooldown before it calls the wrapped action
throttled_throws_flagFirst(m, this, args) ==
    [m EXCEPT !.st.lastArgs = args, !.st.lastThis = this,
              !.st.inThrottle = TRUE]

\* throttled(...args) when func.apply throws: outside the cooldown the
\* exception leaves the handler at the delivery, and the statements after it
\* (clearing lastArgs, entering the cooldown, setTimeout) do not run; inside
\* the cooldown the wrapped action is not called
throttled_throws(m, this, args) ==
    [m EXCEPT !.st.lastArgs = args, !.st.lastThis = this]

\* the callback of the cooldown timer when the trailing delivery throws
throttle_cooldownTimer_throws(m) ==
    LET m1 == [m EXCEPT !.st.inThrottle = FALSE]
    IN  throttled_throws(m1, m1.st.lastThis, m1.st.lastArgs)

\* a handler ran and the wrapped action threw out of it
ThrowCommit(m, op, args, this) ==
    /\ st' = m.st
    /\ timers' = m.tm
    /\ nextId' = m.id
    /\ log' = log \o <<Entry(op, args, this), Entry("throw", NoArgs, Undefined)>>
    /\ UNCHANGED <<kind, cfg, now>>

\* a call outside the cooldown whose immediate delivery throws
ThrottledCallThrows ==
    /\ kind = "throttle" /\ CanCall /\ ~st.inThrottle
    /\ ThrowCommit(throttled_throws(Mach, ThisCall.this, ThisCall.args),
                   "invoke", ThisCall.args, ThisCall.this)

\* the cooldown timer fires with a call pending, and its delivery throws
CooldownThrows ==
    \E x \in timers :
        /\ x.cb = "cooldown" /\ x.due <= now /\ st.lastArgs # NoArgs
        /\ ThrowCommit(throttle_cooldownTimer_throws(
                           [Mach EXCEPT !.tm = timers \ {x}]),
                       "cooldown", NoArgs, Undefined)

ThrottleThrowNext ==
    \/ ThrottledCall
    \/ ThrottledCallThrows
    \/ ThrottleCancel
    \/ FireTimer
    \/ CooldownThrows
    \/ Tick

ThrottleThrowSpec == ThrottleStart /\ [][ThrottleThrowNext]_vars

\* the wrapped action threw in the handler that ran last
LastHandlerThrew == log # <<>> /\ log[Len(log)].op = "throw"

\* C35: in every reachable state a throttle is in its cooldown if and only
\* if a cooldown timer is live, and that timer is the one the controller
\* holds and is due within wait ms, so that the cooldown ends; also after
\* cancel() and after the wrapped action threw in an immediate or a trailing
\* delivery.
CooldownIffTimer ==
    kind = "throttle" =>
        /\ st.inThrottle <=> (\E x \in timers : x.cb = "cooldown")
        /\ Cardinality(timers) <= 1
        /\ \A x \in timers :
               x.id = st.timeoutId /\ x.due <= now + cfg.wait

\* a trailing delivery threw after a cooldown that a call had opened: the
\* controller is outside the cooldown with no timer left
CooldownIffTimer_Witness ==
    /\ kind = "throttle" /\ cfg.wait > 0
    /\ LastHandlerThrew /\ Len(log) >= 2 /\ log[Len(log) - 1].op = "cooldown"
    /\ ~st.inThrottle /\ timers = {}
    /\ Ops({"deliver"}) # {}

----------------------------------------------------------------------------
(* cloneDeep and merge on objects that contain themselves *)

\* the objects the caller makes: { a: 1 }; the same with obj.self = obj;
\* { a: { b: 1 } } with obj.a.up = obj; { a: [1] } with obj.a.push(obj)
CircularShapes == {"plain", "self", "nested", "array"}

\* the object of shape s, created in heap h
Circular(h, s) ==
    LET plain == Build(h, TObject("a" :> TPrim(1)))
        nested == Build(h, TObject("a" :> TObject("b" :> TPrim(1))))
        array == Build(h, TObject("a" :> TArray(<<TPrim(1)>>)))
    IN  CASE s = "empty" -> Build(h, TObject(<<>>))
          [] s = "plain" -> plain
          [] s = "self" ->
                Made(SetProperty(plain.h, plain.v.v, "self", plain.v), plain.v)
          [] s = "nested" ->
                Made(SetProperty(nested.h, nested.h[nested.v.v].own["a"].v,
                                 "up", nested.v),
                     nested.v)
          [] s = "array" ->
                Made([array.h EXCEPT ![array.h[array.v.v].own["a"].v].items =
                                         Append(@, array.v)],
                     array.v)

\* no cloneDeep has been called
NoClone == [of |-> 0, h |-> <<>>, v |-> Undef, seen |-> NewWeakMap]

CircularInit ==
    /\ kind = "merge"
    /\ cfg \in [arrayMerge : ArrayMergeStrategies]
    /\ \E t \in CircularShapes \cup {"empty"}, s1 \in CircularShapes,
          s2 \in CircularShapes :
          LET target == Circular(EmptyHeap, t)
              first == Circular(target.h, s1)
              second == Circular(first.h, s2)
          IN  st = [heap |-> second.h, original |-> second.h,
                    target |-> target.v.v,
                    sources |-> <<first.v.v, second.v.v>>,
                    merged |-> FALSE, mutations |-> 0, clone |-> NoClone]
    /\ timers = {}
    /\ nextId = 1
    /\ now = 0
    /\ log = <<>>

\* const cloned = cloneDeep(obj), of one of the objects the caller made
CloneCall ==
    /\ st.clone = NoClone /\ ~st.merged
    /\ \E a \in {st.target} \cup {st.sources[i] : i \in 1..Len(st.sources)} :
          LET cloned == cloneDeep(st.heap, Ref(a), NewWeakMap)
          IN  st' = [st EXCEPT !.heap = cloned.h,
                               !.clone = [of |-> a, h |-> cloned.h,
                                          v |-> cloned.v, seen |-> cloned.seen]]
    /\ UNCHANGED <<kind, cfg, timers, nextId, now, log>>

CircularNext ==
    \/ CloneCall
    \/ MergeCall

CircularSpec == CircularInit /\ [][CircularNext]_vars

\* the value w of a clone stands for the value v of the original: the same
\* primitive, or the clone of the object v refers to
Mirrors(c, v, w) ==
    IF v.tag # "ref" THEN w = v
    ELSE w.tag = "ref" /\ v.v \in DOMAIN c.seen /\ w.v = c.seen[v.v]

\* every object of the clone is a new one, and holds under each key and
\* index what the original holds there, with the clones in place of the
\* objects
CloneIsClosed(c) ==
    \A o \in DOMAIN c.seen :
        LET k == c.seen[o]
        IN  /\ k > Len(st.original)
            /\ DOMAIN c.h[k].own = DOMAIN c.h[o].own
            /\ \A key \in DOMAIN c.h[o].own :
                   Mirrors(c, c.h[o].own[key], c.h[k].own[key])
            /\ Len(c.h[k].items) = Len(c.h[o].items)
            /\ \A i \in 1..Len(c.h[o].items) :
                   Mirrors(c, c.h[o].items[i], c.h[k].items[i])

\* C31: cloneDeep and merge terminate on inputs that contain circular
\* references: the clone of a circular object is a structure of new objects
\* whose cycles lead into the clone and never into the original, and merge of
\* a circular source returns, without recursing until the stack is
\* exhausted, for every target, a circular one included.
CircularTerminates ==
    kind = "merge" =>
        /\ st.clone # NoClone =>
               /\ st.clone.v.tag = "ref" /\ st.clone.of \in DOMAIN st.clone.seen
               /\ st.clone.v.v = st.clone.seen[st.clone.of]
               /\ Reach(st.clone.h, {st.clone.v.v}, {}) \cap DOMAIN st.original = {}
               /\ CloneIsClosed(st.clone)
        /\ st.merged => ~Threw(st.heap)

====
